---- MODULE Spec2Model ----
(***************************************************************************)
(* The EAP-WSC Enrollee of src/src/eap-wsc.c as a state machine.           *)
(*                                                                         *)
(* A session (struct eap_wsc_state) is the record wsc.  One action,        *)
(* HandleRequest, is a whole call of eap_wsc_handle_request on one inbound *)
(* frame.  The handlers are operators from a session to a result record    *)
(*   [wsc, out, nack, stack]                                               *)
(* wsc the session on return, out the frames handed to eap_send_response,  *)
(* nack the error codes eap_wsc_send_nack was called with, stack what the  *)
(* transient key buffers of eap_wsc_handle_m2 hold on return.              *)
(*                                                                         *)
(* The TLV codec (wsc_parse_m2.., wsc_build_m1..), the checksum, cipher    *)
(* and key objects are libraries outside src/: a message is the record of  *)
(* the attributes the handlers read, a digest is the term [key, data, len], *)
(* cipher-text is the term of its key, IV and plain text, and keys are     *)
(* numbers derived injectively (no collisions).                            *)
(*                                                                         *)
(* Probe, LoadSettings and Remove are eap_wsc_probe, eap_wsc_load_settings *)
(* and eap_wsc_remove; eap is the outer EAP layer's side of the session.   *)
(***************************************************************************)
EXTENDS Integers, Sequences, FiniteSets, TLC

VARIABLES
    wsc,        \* the session: struct eap_wsc_state
    pre,        \* the session as it was when the last event was delivered
    ev,         \* the last event: the inbound frame and the environment's answers
    lastOut,    \* the frames the last event handed to eap_send_response
    lastNack,   \* the error codes the last event called eap_wsc_send_nack with
    stack,      \* transient key buffers of the last eap_wsc_handle_m2 call, on return
    peer_prev,  \* body of the last WSC_MSG frame the peer received from the Enrollee
    sent,       \* how often each kind of frame was transmitted (saturating)
    hp,         \* progress along the recorded exchange START, M2, M4, M6, M8
    faults,     \* number of events so far in which a library call failed
    pwfail,     \* an M4 was answered with NACK DEVICE_PASSWORD_AUTH_FAILURE
    call,       \* the last call of a helper on its own: its inputs and its results
    eap         \* the outer EAP layer: struct eap_state, and what it was asked to do

vars == <<wsc, pre, ev, lastOut, lastNack, stack, peer_prev, sent, hp, faults,
          pwfail, call, eap>>

----------------------------------------------------------------------------
(* Program constants *)

WSC_OP_START == 1
WSC_OP_ACK == 2
WSC_OP_NACK == 3
WSC_OP_MSG == 4
WSC_OP_DONE == 5
WSC_OP_FRAG_ACK == 6

WSC_FLAG_MF == 1
WSC_FLAG_LF == 2

STATE_EXPECT_START == 0
STATE_EXPECT_M2 == 1
STATE_EXPECT_M4 == 2
STATE_EXPECT_M6 == 3
STATE_EXPECT_M8 == 4
STATE_FINISHED == 5

WSC_CONFIGURATION_ERROR_NO_ERROR == 0
WSC_CONFIGURATION_ERROR_DECRYPTION_CRC_FAILURE == 17
WSC_CONFIGURATION_ERROR_DEVICE_PASSWORD_AUTH_FAILURE == 18

\* Encrypted Settings: the IV in front, and the AES block
\* uint8_t encrypted[64] of eap_wsc_send_m5 and eap_wsc_send_m7
encrypted_size == 64

IV_LEN == 16
AES_BLOCK == 16
\* an Authenticator / KeyWrapAuthenticator attribute: 4 bytes of header, 8 of digest
AUTH_ATTR_LEN == 12
AUTH_LEN == 8
PSK_LEN == 16
HASH_LEN == 32
\* the R-SNonce / E-SNonce attribute in front of the KeyWrapAuthenticator
SNONCE_ATTR_LEN == 20

----------------------------------------------------------------------------
(* Bounds of the model *)

\* Registrar nonces the peer may put in an M2: 1..MaxNonce
MaxNonce == 2
\* Registrar public keys the peer may put in an M2: 1..MaxPubKey
MaxPubKey == 1
\* saturation of the transmission counters: MaxSent stands for "MaxSent or more"
MaxSent == 2

\* events of one run in which a library call fails
MaxFaults == 1

\* cipher blocks of an Encrypted Settings payload
MaxBlocks == 2

\* credentials in the attributes of Encrypted Settings
MaxCreds == 2

\* bytes of a configured DevicePassword
MaxPassword == 10

\* bytes of a plain text given to encrypted_settings_encrypt
MaxPlain == 49

\* the values of RFBand a configuration may hold: 0..MaxBand
MaxBand == 4

\* values of the bytes of a decrypted buffer: around 0, the block length, two
\* blocks, and the greatest byte
PadBytes == {0, 1, 2, 15, 16, 17, 31, 32, 33, 48, 255}

----------------------------------------------------------------------------
(* Checksums, ciphers and keys (ell), as terms *)

\* l_checksum_update[v] + l_checksum_get_digest(.., len): the first len bytes of
\* the HMAC-SHA256 of the concatenation of data under key; a NULL handle (0)
\* computes nothing the peer could have produced
HMAC(key, data, len) == [key |-> key, data |-> data, len |-> len]

\* a zeroed digest buffer
NoDigest == [key |-> 0, data |-> <<>>, len |-> 0]

\* l_key_compute_dh_secret: g^(ab); the peer that owns public key pub computes
\* the same value from the Enrollee's public key
DhSecret(pub, priv) == 10 * pub + priv

\* l_checksum SHA-256 of the shared secret
SHA256(z) == 100 + z

\* HMAC-SHA256(DHKey, EnrolleeNonce || EnrolleeMAC || RegistrarNonce)
KDK(dhkey, n1, mac, n2) == ((dhkey * 10 + n1) * 10 + mac) * 10 + n2

\* wsc_kdf: AuthKey(32) || KeyWrapKey(16) || EMSK(32)
wsc_kdf(kdk) ==
    [auth_key |-> 4 * kdk + 1, keywrap_key |-> 4 * kdk + 2, emsk |-> 4 * kdk + 3]

ZeroKeys == [auth_key |-> 0, keywrap_key |-> 0, emsk |-> 0]

----------------------------------------------------------------------------
(* Messages, as the codec (wscutil) sees them *)

\* The plain text of an Encrypted Settings attribute: tlvlen bytes of
\* attributes (the secret nonce, the number of credentials, the
\* KeyWrapAuthenticator), then the bytes of tail
NoPlain == [tlvlen |-> 0, tail |-> <<>>, ok |-> FALSE, snonce |-> 0, creds |-> 0,
            kwa |-> NoDigest]

\* Byte i (from 1) of a plain text, and its length; the bytes of the attributes
\* are not padding bytes
PlainByte(pt, i) == IF i <= pt.tlvlen THEN 170 ELSE pt.tail[i - pt.tlvlen]

PlainLen(pt) == pt.tlvlen + Len(pt.tail)

\* An Encrypted Settings attribute of len bytes: IV, then the AES-CBC
\* encryption under key of plain text pt
NoEnc == [len |-> 0, iv |-> 0, key |-> 0, pt |-> NoPlain]

\* A WSC message body.  type "junk" is a body no wsc_parse_mN accepts.
\* cut is the number of bytes missing from the end: 0 for a whole message.
NoPdu == [type |-> "none", en |-> 0, rn |-> 0, pk |-> 0, err |-> 0,
          h1 |-> NoDigest, h2 |-> NoDigest, enc |-> NoEnc, auth |-> NoDigest,
          cut |-> 0]

JunkPdu == [NoPdu EXCEPT !.type = "junk"]

\* The first len - cut bytes of a message of len bytes.  Its last 12 bytes are
\* the Authenticator attribute, 4 bytes of type and length and the 8 of the
\* value: the value is missing from the first len - 8 bytes and from what is
\* shorter
Truncated(pdu, cut) ==
    [pdu EXCEPT !.auth = IF cut >= AUTH_LEN THEN NoDigest ELSE pdu.auth,
                !.cut = cut]

\* A message without its Authenticator attribute
WithoutAuthenticator(pdu) == Truncated(pdu, AUTH_ATTR_LEN)

\* The first n bytes of the first len bytes of a plain text, n not reaching
\* the value of the KeyWrapAuthenticator, the last 8 bytes of the attributes
PlainPrefix(pt, len, n) ==
    IF len = pt.tlvlen
    THEN [snonce |-> pt.snonce, creds |-> pt.creds, len |-> n]
    ELSE [snonce |-> 0, creds |-> 0, len |-> n]

\* The part of a plain text the KeyWrapAuthenticator covers: all but the
\* trailing KeyWrapAuthenticator attribute (len - 12 bytes)
WithoutKeyWrapAuthenticator(pt, len) == PlainPrefix(pt, len, len - AUTH_ATTR_LEN)

\* The last 8 bytes of the first len bytes of a plain text
Last8(pt, len) == IF len = pt.tlvlen THEN pt.kwa ELSE NoDigest

\* n bytes of value b
Fill(n, b) == [i \in 1..n |-> b]

\* wsc_parse_m2: 0 and the attributes, or an error
wsc_parse_m2(pdu) == pdu.type = "M2"

\* wsc_parse_m4 / m6 / m8: 0, the attributes and the Encrypted Settings, or an error
wsc_parse_m4(pdu) == pdu.type = "M4"

wsc_parse_m6(pdu) == pdu.type = "M6"

wsc_parse_m8(pdu) == pdu.type = "M8"

\* wsc_parse_m4_encrypted_settings / m6: the first len bytes of the plain text
\* are exactly R-SNonce and KeyWrapAuthenticator
wsc_parse_m4_encrypted_settings(pt, len) == pt.ok /\ len = pt.tlvlen /\ pt.creds = 0

wsc_parse_m6_encrypted_settings(pt, len) == pt.ok /\ len = pt.tlvlen /\ pt.creds = 0

\* wsc_parse_m8_encrypted_settings: credentials (at least one, at most the
\* n_creds the caller has room for) and KeyWrapAuthenticator
wsc_parse_m8_encrypted_settings(pt, len, n_creds) ==
    pt.ok /\ len = pt.tlvlen /\ pt.creds >= 1 /\ pt.creds <= n_creds

\* wsc_build_m1
wsc_build_m1(m1) ==
    [NoPdu EXCEPT !.type = "M1", !.en = m1.enrollee_nonce, !.pk = m1.public_key]

\* wsc_build_m3, before the Authenticator is put
wsc_build_m3(m3) ==
    [NoPdu EXCEPT !.type = "M3", !.rn = m3.registrar_nonce,
                  !.h1 = m3.e_hash1, !.h2 = m3.e_hash2]

\* wsc_build_m5 / m7, before the Authenticator is put
wsc_build_m5(m5, encrypted) ==
    [NoPdu EXCEPT !.type = "M5", !.rn = m5.registrar_nonce, !.enc = encrypted]

wsc_build_m7(m7, encrypted) ==
    [NoPdu EXCEPT !.type = "M7", !.rn = m7.registrar_nonce, !.enc = encrypted]

\* wsc_build_m5_encrypted_settings / m7: E-SNonce (20 bytes) and room for the
\* KeyWrapAuthenticator attribute (12 bytes)
wsc_build_m5_encrypted_settings(m5es) ==
    [tlvlen |-> SNONCE_ATTR_LEN + AUTH_ATTR_LEN, tail |-> <<>>, ok |-> TRUE,
     snonce |-> m5es.e_snonce1, creds |-> 0, kwa |-> NoDigest]

wsc_build_m7_encrypted_settings(m7es) ==
    [tlvlen |-> SNONCE_ATTR_LEN + AUTH_ATTR_LEN, tail |-> <<>>, ok |-> TRUE,
     snonce |-> m7es.e_snonce2, creds |-> 0, kwa |-> NoDigest]

\* wsc_build_wsc_nack / wsc_build_wsc_done
wsc_build_wsc_nack(nack) ==
    [NoPdu EXCEPT !.type = "NACK", !.en = nack.enrollee_nonce,
                  !.rn = nack.registrar_nonce, !.err = nack.configuration_error]

wsc_build_wsc_done(done) ==
    [NoPdu EXCEPT !.type = "DONE", !.en = done.enrollee_nonce,
                  !.rn = done.registrar_nonce]

----------------------------------------------------------------------------
(* The environment's answers during one event *)

\* The library call that fails during an event, if any
Failures == {"none", "wsc_build_m1", "l_key_new", "l_key_compute_dh_secret",
             "l_checksum_new", "l_checksum_new_hmac", "wsc_kdf", "wsc_build_m3",
             "wsc_build_encrypted_settings", "l_cipher_encrypt", "wsc_build_msg",
             "wsc_build_wsc_nack", "wsc_build_wsc_done"}

\* fail: the library call that fails; partial: whether a wsc_parse_m2 that
\* returns an error has already stored the nonce and public key it found
Env == [fail : Failures, partial : BOOLEAN]

\* What a handler returns: the session, the frames sent, the codes
\* eap_wsc_send_nack was called with, the transient key buffers on return
NoStack == [shared_secret |-> 0, dhkey |-> 0, kdk |-> 0, keys |-> ZeroKeys]

Res(w, out, nack, stk) == [wsc |-> w, out |-> out, nack |-> nack, stack |-> stk]

Frame(op, pdu) == [op |-> op, flags |-> 0, pdu |-> pdu]

----------------------------------------------------------------------------
(* src/src/eap-wsc.c *)

eap_wsc_state_set_sent_pdu(w, pdu) == [w EXCEPT !.sent_pdu = <<pdu>>]

\* authenticator_check that hashes the message up to its last 8 bytes
authenticator_check_Last8(w, pdu) ==
    HMAC(w.hmac_auth_key, w.sent_pdu \o <<Truncated(pdu, AUTH_LEN)>>, AUTH_LEN)
        = pdu.auth

authenticator_check(w, pdu) ==
    HMAC(w.hmac_auth_key, w.sent_pdu \o <<Truncated(pdu, AUTH_ATTR_LEN)>>, AUTH_LEN)
        = pdu.auth

\* authenticator_put that hashes the session's own last message in the place
\* of prev_msg
authenticator_put_OwnPdu(w, prev_msg, cur_msg) ==
    [cur_msg EXCEPT !.auth =
        HMAC(w.hmac_auth_key, w.sent_pdu \o <<Truncated(cur_msg, AUTH_ATTR_LEN)>>,
             AUTH_LEN)]

authenticator_put(w, prev_msg, cur_msg) ==
    [cur_msg EXCEPT !.auth =
        HMAC(w.hmac_auth_key, <<prev_msg, Truncated(cur_msg, AUTH_ATTR_LEN)>>,
             AUTH_LEN)]

\* keywrap_authenticator_check that accepts every KeyWrapAuthenticator
keywrap_authenticator_check_Skipped(w, pt, len) == TRUE

keywrap_authenticator_check(w, pt, len) ==
    HMAC(w.hmac_auth_key, <<PlainPrefix(pt, len, len - AUTH_ATTR_LEN)>>, AUTH_LEN)
        = Last8(pt, len)

\* keywrap_authenticator_put that hashes the plain text up to its last 8 bytes
keywrap_authenticator_put_Last8(w, pt, len) ==
    [pt EXCEPT !.kwa =
        HMAC(w.hmac_auth_key, <<PlainPrefix(pt, len, len - AUTH_LEN)>>, AUTH_LEN)]

keywrap_authenticator_put(w, pt, len) ==
    [pt EXCEPT !.kwa =
        HMAC(w.hmac_auth_key, <<PlainPrefix(pt, len, len - AUTH_ATTR_LEN)>>,
             AUTH_LEN)]

\* r_hash_check with PKE and PKR in the other order
r_hash_check_KeysSwapped(w, r_snonce, psk, r_hash_expected) ==
    HMAC(w.hmac_auth_key,
         <<r_snonce, psk, w.m2[1].public_key, w.m1[1].public_key>>, HASH_LEN)
        = r_hash_expected

\* r_hash_check that accepts every R-Hash
r_hash_check_Skipped(w, r_snonce, psk, r_hash_expected) == TRUE

r_hash_check(w, r_snonce, psk, r_hash_expected) ==
    HMAC(w.hmac_auth_key,
         <<r_snonce, psk, w.m1[1].public_key, w.m2[1].public_key>>, HASH_LEN)
        = r_hash_expected

\* l_cipher_decrypt of the cipher-text of enc under handle key: the plain text
\* it was made from when the key is the same, other bytes when it is not
l_cipher_decrypt(key, enc, encrypted_len) ==
    IF key = enc.key THEN enc.pt
    ELSE [NoPlain EXCEPT !.tail = Fill(encrypted_len, 1)]

\* encrypted_settings_decrypt without the test that the cipher-text is whole
\* blocks
encrypted_settings_decrypt_AnyLength(w, enc) ==
    LET encrypted_len == enc.len - IV_LEN
        decrypted == l_cipher_decrypt(w.aes_cbc_128, enc, encrypted_len)
        pad == PlainByte(decrypted, encrypted_len)
        null == [ok |-> FALSE, pt |-> NoPlain, out_len |-> 0, decrypted |-> FALSE]
        fail == [null EXCEPT !.decrypted = TRUE]
    IN  IF enc.len < IV_LEN THEN null
        ELSE IF encrypted_len < AES_BLOCK THEN null
        ELSE IF w.aes_cbc_128 = 0 THEN fail
        ELSE IF pad > encrypted_len THEN fail
        ELSE IF \E i \in 0..(pad - 1) :
                    PlainByte(decrypted, encrypted_len - pad + i + 1) # pad THEN fail
        ELSE [ok |-> TRUE, pt |-> decrypted, out_len |-> encrypted_len - pad,
              decrypted |-> TRUE]

\* NULL, or the plain text and *out_len
encrypted_settings_decrypt(w, enc) ==
    LET encrypted_len == enc.len - IV_LEN
        decrypted == l_cipher_decrypt(w.aes_cbc_128, enc, encrypted_len)
        pad == PlainByte(decrypted, encrypted_len)
        \* return NULL before l_cipher_decrypt, and after it (goto fail)
        null == [ok |-> FALSE, pt |-> NoPlain, out_len |-> 0, decrypted |-> FALSE]
        fail == [null EXCEPT !.decrypted = TRUE]
    IN  IF enc.len < IV_LEN THEN null
        ELSE IF encrypted_len < AES_BLOCK \/ (encrypted_len % AES_BLOCK) # 0 THEN null
        ELSE IF w.aes_cbc_128 = 0 THEN fail
        ELSE IF pad > encrypted_len THEN fail
        ELSE IF \E i \in 0..(pad - 1) :
                    PlainByte(decrypted, encrypted_len - pad + i + 1) # pad THEN fail
        ELSE [ok |-> TRUE, pt |-> decrypted, out_len |-> encrypted_len - pad,
              decrypted |-> TRUE]

\* encrypted_settings_encrypt that adds no padding to whole blocks
encrypted_settings_encrypt_NoFullBlock(w, iv, in, in_len, env) ==
    LET pad == (AES_BLOCK - (in_len % AES_BLOCK)) % AES_BLOCK
        len == IV_LEN + in_len + pad
    IN  IF w.aes_cbc_128 = 0 \/ env.fail = "l_cipher_encrypt"
        THEN [ok |-> FALSE, out |-> NoEnc, out_len |-> 0]
        ELSE [ok |-> TRUE,
              out |-> [len |-> len, iv |-> iv, key |-> w.aes_cbc_128,
                       pt |-> [in EXCEPT !.tail =
                                  SubSeq(in.tail, 1, in_len - in.tlvlen)
                                      \o Fill(pad, pad)]],
              out_len |-> len]

\* encrypted_settings_encrypt that pads with one block more
encrypted_settings_encrypt_ExtraBlock(w, iv, in, in_len, env) ==
    LET pad == 2 * AES_BLOCK - (in_len % AES_BLOCK)
        len == IV_LEN + in_len + pad
    IN  IF w.aes_cbc_128 = 0 \/ env.fail = "l_cipher_encrypt"
        THEN [ok |-> FALSE, out |-> NoEnc, out_len |-> 0]
        ELSE [ok |-> TRUE,
              out |-> [len |-> len, iv |-> iv, key |-> w.aes_cbc_128,
                       pt |-> [in EXCEPT !.tail =
                                  SubSeq(in.tail, 1, in_len - in.tlvlen)
                                      \o Fill(pad, pad)]],
              out_len |-> len]

\* false, or the Encrypted Settings attribute and *out_len
encrypted_settings_encrypt(w, iv, in, in_len, env) ==
    LET pad == AES_BLOCK - (in_len % AES_BLOCK)
        len == IV_LEN + in_len + pad
    IN  IF w.aes_cbc_128 = 0 \/ env.fail = "l_cipher_encrypt"
        THEN [ok |-> FALSE, out |-> NoEnc, out_len |-> 0]
        ELSE [ok |-> TRUE,
              out |-> [len |-> len, iv |-> iv, key |-> w.aes_cbc_128,
                       pt |-> [in EXCEPT !.tail =
                                  SubSeq(in.tail, 1, in_len - in.tlvlen)
                                      \o Fill(pad, pad)]],
              out_len |-> len]

\* eap_wsc_send_response that does not keep the message sent
eap_wsc_send_response_NotKept(w, pdu) ==
    Res(w, <<Frame(WSC_OP_MSG, pdu)>>, <<>>, NoStack)

eap_wsc_send_response(w, pdu) ==
    Res(eap_wsc_state_set_sent_pdu(w, pdu), <<Frame(WSC_OP_MSG, pdu)>>, <<>>, NoStack)

\* eap_wsc_send_nack without the return on WSC_CONFIGURATION_ERROR_NO_ERROR
eap_wsc_send_nack_NoSuppress(w, error, env) ==
    LET nack == [enrollee_nonce |-> w.m1[1].enrollee_nonce,
                 registrar_nonce |->
                     IF w.m2 # <<>> THEN w.m2[1].registrar_nonce ELSE 0,
                 configuration_error |-> error]
    IN  IF env.fail = "wsc_build_wsc_nack"
        THEN Res(w, <<>>, <<error>>, NoStack)
        ELSE Res(w, <<Frame(WSC_OP_NACK, wsc_build_wsc_nack(nack))>>, <<error>>,
                 NoStack)

\* eap_wsc_send_nack that always sends a zero RegistrarNonce
eap_wsc_send_nack_ZeroNonce(w, error, env) ==
    LET nack == [enrollee_nonce |-> w.m1[1].enrollee_nonce,
                 registrar_nonce |-> 0,
                 configuration_error |-> error]
    IN  IF error = WSC_CONFIGURATION_ERROR_NO_ERROR
        THEN Res(w, <<>>, <<error>>, NoStack)
        ELSE IF env.fail = "wsc_build_wsc_nack"
        THEN Res(w, <<>>, <<error>>, NoStack)
        ELSE Res(w, <<Frame(WSC_OP_NACK, wsc_build_wsc_nack(nack))>>, <<error>>,
                 NoStack)

eap_wsc_send_nack(w, error, env) ==
    LET nack == [enrollee_nonce |-> w.m1[1].enrollee_nonce,
                 registrar_nonce |->
                     IF w.m2 # <<>> THEN w.m2[1].registrar_nonce ELSE 0,
                 configuration_error |-> error]
    IN  IF error = WSC_CONFIGURATION_ERROR_NO_ERROR
        THEN Res(w, <<>>, <<error>>, NoStack)
        ELSE IF env.fail = "wsc_build_wsc_nack"
        THEN Res(w, <<>>, <<error>>, NoStack)
        ELSE Res(w, <<Frame(WSC_OP_NACK, wsc_build_wsc_nack(nack))>>, <<error>>,
                 NoStack)

\* eap_wsc_send_done that sends the WSC_Done message under op WSC_OP_MSG
eap_wsc_send_done_AsMsg(w, env) ==
    LET done == [enrollee_nonce |-> w.m1[1].enrollee_nonce,
                 registrar_nonce |-> w.m2[1].registrar_nonce]
    IN  IF env.fail = "wsc_build_wsc_done"
        THEN Res(w, <<>>, <<>>, NoStack)
        ELSE Res(w, <<Frame(WSC_OP_MSG, wsc_build_wsc_done(done))>>, <<>>, NoStack)

eap_wsc_send_done(w, env) ==
    LET done == [enrollee_nonce |-> w.m1[1].enrollee_nonce,
                 registrar_nonce |-> w.m2[1].registrar_nonce]
    IN  IF env.fail = "wsc_build_wsc_done"
        THEN Res(w, <<>>, <<>>, NoStack)
        ELSE Res(w, <<Frame(WSC_OP_DONE, wsc_build_wsc_done(done))>>, <<>>, NoStack)

eap_wsc_handle_m8(w, pdu, env) ==
    LET d == encrypted_settings_decrypt(w, pdu.enc)
        n_creds == 3
    IN  IF ~wsc_parse_m8(pdu)
        THEN eap_wsc_send_nack(w, WSC_CONFIGURATION_ERROR_NO_ERROR, env)
        ELSE IF ~authenticator_check(w, pdu)
        THEN Res(w, <<>>, <<>>, NoStack)
        ELSE IF ~d.ok
        THEN eap_wsc_send_nack(w, WSC_CONFIGURATION_ERROR_DECRYPTION_CRC_FAILURE, env)
        ELSE IF ~wsc_parse_m8_encrypted_settings(d.pt, d.out_len, n_creds)
        THEN eap_wsc_send_nack(w, WSC_CONFIGURATION_ERROR_DECRYPTION_CRC_FAILURE, env)
        ELSE IF ~keywrap_authenticator_check(w, d.pt, d.out_len)
        THEN eap_wsc_send_nack(w, WSC_CONFIGURATION_ERROR_DECRYPTION_CRC_FAILURE, env)
        ELSE LET r == eap_wsc_send_done(w, env)
             IN  Res([r.wsc EXCEPT !.state = STATE_FINISHED], r.out, r.nack, NoStack)

eap_wsc_send_m7(w, m6_pdu, env) ==
    LET m7es == [e_snonce2 |-> w.e_snonce2]
        es == wsc_build_m7_encrypted_settings(m7es)
        es_len == es.tlvlen
        signed == keywrap_authenticator_put(w, es, es_len)
        r == encrypted_settings_encrypt(w, w.iv2, signed, es_len, env)
        m7 == [registrar_nonce |-> w.m2[1].registrar_nonce]
        pdu == authenticator_put(w, m6_pdu, wsc_build_m7(m7, r.out))
        s == eap_wsc_send_response(w, pdu)
    IN  IF env.fail = "wsc_build_encrypted_settings" THEN Res(w, <<>>, <<>>, NoStack)
        ELSE IF ~r.ok THEN Res(w, <<>>, <<>>, NoStack)
        ELSE IF env.fail = "wsc_build_msg" THEN Res(w, <<>>, <<>>, NoStack)
        ELSE Res([s.wsc EXCEPT !.state = STATE_EXPECT_M8], s.out, s.nack, NoStack)

eap_wsc_handle_m6(w, pdu, env) ==
    LET d == encrypted_settings_decrypt(w, pdu.enc)
        m6es == [r_snonce2 |-> d.pt.snonce]
    IN  IF ~wsc_parse_m6(pdu)
        THEN eap_wsc_send_nack(w, WSC_CONFIGURATION_ERROR_NO_ERROR, env)
        ELSE IF ~authenticator_check(w, pdu)
        THEN Res(w, <<>>, <<>>, NoStack)
        ELSE IF ~d.ok
        THEN eap_wsc_send_nack(w, WSC_CONFIGURATION_ERROR_DECRYPTION_CRC_FAILURE, env)
        ELSE IF ~wsc_parse_m6_encrypted_settings(d.pt, d.out_len)
        THEN eap_wsc_send_nack(w, WSC_CONFIGURATION_ERROR_DECRYPTION_CRC_FAILURE, env)
        ELSE IF ~keywrap_authenticator_check(w, d.pt, d.out_len)
        THEN eap_wsc_send_nack(w, WSC_CONFIGURATION_ERROR_DECRYPTION_CRC_FAILURE, env)
        ELSE IF ~r_hash_check(w, m6es.r_snonce2, w.psk2, w.r_hash2)
        THEN eap_wsc_send_nack(w,
                 WSC_CONFIGURATION_ERROR_DEVICE_PASSWORD_AUTH_FAILURE, env)
        ELSE eap_wsc_send_m7(w, pdu, env)

\* eap_wsc_send_m5 that sets the state two steps ahead
eap_wsc_send_m5_SkipsState(w, m4_pdu, env) ==
    LET m5es == [e_snonce1 |-> w.e_snonce1]
        es == wsc_build_m5_encrypted_settings(m5es)
        es_len == es.tlvlen
        signed == keywrap_authenticator_put(w, es, es_len)
        r == encrypted_settings_encrypt(w, w.iv1, signed, es_len, env)
        m5 == [registrar_nonce |-> w.m2[1].registrar_nonce]
        pdu == authenticator_put(w, m4_pdu, wsc_build_m5(m5, r.out))
        s == eap_wsc_send_response(w, pdu)
    IN  IF env.fail = "wsc_build_encrypted_settings" THEN Res(w, <<>>, <<>>, NoStack)
        ELSE IF ~r.ok THEN Res(w, <<>>, <<>>, NoStack)
        ELSE IF env.fail = "wsc_build_msg" THEN Res(w, <<>>, <<>>, NoStack)
        ELSE Res([s.wsc EXCEPT !.state = STATE_EXPECT_M8], s.out, s.nack, NoStack)

eap_wsc_send_m5(w, m4_pdu, env) ==
    LET m5es == [e_snonce1 |-> w.e_snonce1]
        es == wsc_build_m5_encrypted_settings(m5es)
        es_len == es.tlvlen
        signed == keywrap_authenticator_put(w, es, es_len)
        r == encrypted_settings_encrypt(w, w.iv1, signed, es_len, env)
        m5 == [registrar_nonce |-> w.m2[1].registrar_nonce]
        pdu == authenticator_put(w, m4_pdu, wsc_build_m5(m5, r.out))
        s == eap_wsc_send_response(w, pdu)
    IN  IF env.fail = "wsc_build_encrypted_settings" THEN Res(w, <<>>, <<>>, NoStack)
        ELSE IF ~r.ok THEN Res(w, <<>>, <<>>, NoStack)
        ELSE IF env.fail = "wsc_build_msg" THEN Res(w, <<>>, <<>>, NoStack)
        ELSE Res([s.wsc EXCEPT !.state = STATE_EXPECT_M6], s.out, s.nack, NoStack)

\* eap_wsc_handle_m4 that decrypts the Encrypted Settings before it checks
\* the Authenticator
eap_wsc_handle_m4_DecryptsFirst(w, pdu, env) ==
    LET d == encrypted_settings_decrypt(w, pdu.enc)
        m4 == [r_hash1 |-> pdu.h1, r_hash2 |-> pdu.h2]
        m4es == [r_snonce1 |-> d.pt.snonce]
    IN  IF ~wsc_parse_m4(pdu)
        THEN eap_wsc_send_nack(w, WSC_CONFIGURATION_ERROR_NO_ERROR, env)
        ELSE IF ~d.ok
        THEN eap_wsc_send_nack(w, WSC_CONFIGURATION_ERROR_DECRYPTION_CRC_FAILURE, env)
        ELSE IF ~authenticator_check(w, pdu)
        THEN Res(w, <<>>, <<>>, NoStack)
        ELSE IF ~wsc_parse_m4_encrypted_settings(d.pt, d.out_len)
        THEN eap_wsc_send_nack(w, WSC_CONFIGURATION_ERROR_DECRYPTION_CRC_FAILURE, env)
        ELSE IF ~keywrap_authenticator_check(w, d.pt, d.out_len)
        THEN eap_wsc_send_nack(w, WSC_CONFIGURATION_ERROR_DECRYPTION_CRC_FAILURE, env)
        ELSE IF ~r_hash_check(w, m4es.r_snonce1, w.psk1, m4.r_hash1)
        THEN eap_wsc_send_nack(w,
                 WSC_CONFIGURATION_ERROR_DEVICE_PASSWORD_AUTH_FAILURE, env)
        ELSE eap_wsc_send_m5([w EXCEPT !.r_hash2 = m4.r_hash2], pdu, env)

\* eap_wsc_handle_m4 that stores R-Hash2 before it checks R-Hash1
eap_wsc_handle_m4_StoresEarly(w, pdu, env) ==
    LET d == encrypted_settings_decrypt(w, pdu.enc)
        m4 == [r_hash1 |-> pdu.h1, r_hash2 |-> pdu.h2]
        m4es == [r_snonce1 |-> d.pt.snonce]
        w1 == [w EXCEPT !.r_hash2 = m4.r_hash2]
    IN  IF ~wsc_parse_m4(pdu)
        THEN eap_wsc_send_nack(w, WSC_CONFIGURATION_ERROR_NO_ERROR, env)
        ELSE IF ~authenticator_check(w, pdu)
        THEN Res(w, <<>>, <<>>, NoStack)
        ELSE IF ~d.ok
        THEN eap_wsc_send_nack(w, WSC_CONFIGURATION_ERROR_DECRYPTION_CRC_FAILURE, env)
        ELSE IF ~wsc_parse_m4_encrypted_settings(d.pt, d.out_len)
        THEN eap_wsc_send_nack(w, WSC_CONFIGURATION_ERROR_DECRYPTION_CRC_FAILURE, env)
        ELSE IF ~keywrap_authenticator_check(w, d.pt, d.out_len)
        THEN eap_wsc_send_nack(w, WSC_CONFIGURATION_ERROR_DECRYPTION_CRC_FAILURE, env)
        ELSE IF ~r_hash_check(w, m4es.r_snonce1, w.psk1, m4.r_hash1)
        THEN eap_wsc_send_nack(w1,
                 WSC_CONFIGURATION_ERROR_DEVICE_PASSWORD_AUTH_FAILURE, env)
        ELSE eap_wsc_send_m5(w1, pdu, env)

\* eap_wsc_handle_m4 that goes on to M5 after the NACK for a wrong R-Hash1
eap_wsc_handle_m4_NackThenM5(w, pdu, env) ==
    LET d == encrypted_settings_decrypt(w, pdu.enc)
        m4 == [r_hash1 |-> pdu.h1, r_hash2 |-> pdu.h2]
        m4es == [r_snonce1 |-> d.pt.snonce]
        nack == eap_wsc_send_nack(w,
                    WSC_CONFIGURATION_ERROR_DEVICE_PASSWORD_AUTH_FAILURE, env)
        m5 == eap_wsc_send_m5([w EXCEPT !.r_hash2 = m4.r_hash2], pdu, env)
    IN  IF ~wsc_parse_m4(pdu)
        THEN eap_wsc_send_nack(w, WSC_CONFIGURATION_ERROR_NO_ERROR, env)
        ELSE IF ~authenticator_check(w, pdu)
        THEN Res(w, <<>>, <<>>, NoStack)
        ELSE IF ~d.ok
        THEN eap_wsc_send_nack(w, WSC_CONFIGURATION_ERROR_DECRYPTION_CRC_FAILURE, env)
        ELSE IF ~wsc_parse_m4_encrypted_settings(d.pt, d.out_len)
        THEN eap_wsc_send_nack(w, WSC_CONFIGURATION_ERROR_DECRYPTION_CRC_FAILURE, env)
        ELSE IF ~keywrap_authenticator_check(w, d.pt, d.out_len)
        THEN eap_wsc_send_nack(w, WSC_CONFIGURATION_ERROR_DECRYPTION_CRC_FAILURE, env)
        ELSE IF ~r_hash_check(w, m4es.r_snonce1, w.psk1, m4.r_hash1)
        THEN Res(m5.wsc, nack.out \o m5.out, nack.nack \o m5.nack, NoStack)
        ELSE m5

eap_wsc_handle_m4(w, pdu, env) ==
    LET d == encrypted_settings_decrypt(w, pdu.enc)
        m4 == [r_hash1 |-> pdu.h1, r_hash2 |-> pdu.h2]
        m4es == [r_snonce1 |-> d.pt.snonce]
    IN  IF ~wsc_parse_m4(pdu)
        THEN eap_wsc_send_nack(w, WSC_CONFIGURATION_ERROR_NO_ERROR, env)
        ELSE IF ~authenticator_check(w, pdu)
        THEN Res(w, <<>>, <<>>, NoStack)
        ELSE IF ~d.ok
        THEN eap_wsc_send_nack(w, WSC_CONFIGURATION_ERROR_DECRYPTION_CRC_FAILURE, env)
        ELSE IF ~wsc_parse_m4_encrypted_settings(d.pt, d.out_len)
        THEN eap_wsc_send_nack(w, WSC_CONFIGURATION_ERROR_DECRYPTION_CRC_FAILURE, env)
        ELSE IF ~keywrap_authenticator_check(w, d.pt, d.out_len)
        THEN eap_wsc_send_nack(w, WSC_CONFIGURATION_ERROR_DECRYPTION_CRC_FAILURE, env)
        ELSE IF ~r_hash_check(w, m4es.r_snonce1, w.psk1, m4.r_hash1)
        THEN eap_wsc_send_nack(w,
                 WSC_CONFIGURATION_ERROR_DEVICE_PASSWORD_AUTH_FAILURE, env)
        ELSE eap_wsc_send_m5([w EXCEPT !.r_hash2 = m4.r_hash2], pdu, env)

\* eap_wsc_send_m3 whose first half of the device password is len / 2 bytes,
\* odd or even
eap_wsc_send_m3_EvenSplit(w, m2_pdu, env) ==
    LET m2 == w.m2[1]
        len == Len(w.device_password)
        len_half1 == len \div 2
        psk1 == HMAC(w.hmac_auth_key,
                     <<SubSeq(w.device_password, 1, len_half1)>>, PSK_LEN)
        psk2 == HMAC(w.hmac_auth_key,
                     <<SubSeq(w.device_password, len_half1 + 1,
                              len_half1 + (len \div 2))>>, PSK_LEN)
        w1 == [w EXCEPT !.psk1 = psk1, !.psk2 = psk2]
        m3 == [registrar_nonce |-> m2.registrar_nonce,
               e_hash1 |-> HMAC(w.hmac_auth_key,
                                <<w.e_snonce1, psk1, w.m1[1].public_key, m2.public_key>>,
                                HASH_LEN),
               e_hash2 |-> HMAC(w.hmac_auth_key,
                                <<w.e_snonce2, psk2, w.m1[1].public_key, m2.public_key>>,
                                HASH_LEN)]
        pdu == authenticator_put(w1, m2_pdu, wsc_build_m3(m3))
        s == eap_wsc_send_response(w1, pdu)
    IN  IF env.fail = "wsc_build_m3" THEN Res(w1, <<>>, <<>>, NoStack)
        ELSE Res([s.wsc EXCEPT !.state = STATE_EXPECT_M4], s.out, s.nack, NoStack)

eap_wsc_send_m3(w, m2_pdu, env) ==
    LET m2 == w.m2[1]
        len == Len(w.device_password)
        len_half1 == (len \div 2) + (IF len % 2 = 1 THEN 1 ELSE 0)
        psk1 == HMAC(w.hmac_auth_key,
                     <<SubSeq(w.device_password, 1, len_half1)>>, PSK_LEN)
        psk2 == HMAC(w.hmac_auth_key,
                     <<SubSeq(w.device_password, len_half1 + 1,
                              len_half1 + (len \div 2))>>, PSK_LEN)
        w1 == [w EXCEPT !.psk1 = psk1, !.psk2 = psk2]
        m3 == [registrar_nonce |-> m2.registrar_nonce,
               e_hash1 |-> HMAC(w.hmac_auth_key,
                                <<w.e_snonce1, psk1, w.m1[1].public_key, m2.public_key>>,
                                HASH_LEN),
               e_hash2 |-> HMAC(w.hmac_auth_key,
                                <<w.e_snonce2, psk2, w.m1[1].public_key, m2.public_key>>,
                                HASH_LEN)]
        pdu == authenticator_put(w1, m2_pdu, wsc_build_m3(m3))
        s == eap_wsc_send_response(w1, pdu)
    IN  IF env.fail = "wsc_build_m3" THEN Res(w1, <<>>, <<>>, NoStack)
        ELSE Res([s.wsc EXCEPT !.state = STATE_EXPECT_M4], s.out, s.nack, NoStack)

\* l_new(struct wsc_m2, 1): zeroed
ZeroM2 == [registrar_nonce |-> 0, public_key |-> 0]

\* The end of eap_wsc_handle_m2 that leaves the AuthKey handle in the session
\* when the Authenticator is wrong
eap_wsc_handle_m2_keys_KeepsHandle(w, pdu, keys, env) ==
    LET w2 == [w EXCEPT !.hmac_auth_key = keys.auth_key]
        r == eap_wsc_send_m3(w2, pdu, env)
    IN  IF ~authenticator_check(w2, pdu)
        THEN Res(w2, <<>>, <<>>,
                 [shared_secret |-> 0, dhkey |-> 0, kdk |-> 0, keys |-> ZeroKeys])
        ELSE Res([r.wsc EXCEPT !.aes_cbc_128 = keys.keywrap_key], r.out, r.nack,
                 [shared_secret |-> 0, dhkey |-> 0, kdk |-> 0, keys |-> ZeroKeys])

\* The end of eap_wsc_handle_m2 that sends M3 and installs no AES-CBC handle
eap_wsc_handle_m2_keys_NoCipher(w, pdu, keys, env) ==
    LET w2 == [w EXCEPT !.hmac_auth_key = keys.auth_key]
        r == eap_wsc_send_m3(w2, pdu, env)
    IN  IF ~authenticator_check(w2, pdu)
        THEN Res([w2 EXCEPT !.hmac_auth_key = 0], <<>>, <<>>,
                 [shared_secret |-> 0, dhkey |-> 0, kdk |-> 0, keys |-> ZeroKeys])
        ELSE Res(r.wsc, r.out, r.nack,
                 [shared_secret |-> 0, dhkey |-> 0, kdk |-> 0, keys |-> ZeroKeys])

\* The end of eap_wsc_handle_m2, from the installation of the AuthKey handle:
\* w has the M2 stored, keys is what wsc_kdf returned
eap_wsc_handle_m2_keys(w, pdu, keys, env) ==
    LET w2 == [w EXCEPT !.hmac_auth_key = keys.auth_key]
        r == eap_wsc_send_m3(w2, pdu, env)
    IN  IF ~authenticator_check(w2, pdu)
        \* l_checksum_free, NULL, goto clear_keys
        THEN Res([w2 EXCEPT !.hmac_auth_key = 0], <<>>, <<>>,
                 [shared_secret |-> 0, dhkey |-> 0, kdk |-> 0, keys |-> ZeroKeys])
        ELSE Res([r.wsc EXCEPT !.aes_cbc_128 = keys.keywrap_key], r.out, r.nack,
                 [shared_secret |-> 0, dhkey |-> 0, kdk |-> 0, keys |-> ZeroKeys])

eap_wsc_handle_m2(w, pdu, env) ==
    LET w0 == IF w.m2 = <<>> THEN [w EXCEPT !.m2 = <<ZeroM2>>] ELSE w
        found == [registrar_nonce |-> pdu.rn, public_key |-> pdu.pk]
        \* wsc_parse_m2 returned an error
        wbad == IF env.partial THEN [w0 EXCEPT !.m2 = <<found>>] ELSE w0
        \* wsc_parse_m2 returned 0
        w1 == [w0 EXCEPT !.m2 = <<found>>]
        shared_secret == DhSecret(w1.m2[1].public_key, w1.private)
        dhkey == SHA256(shared_secret)
        kdk == KDK(dhkey, w1.m1[1].enrollee_nonce, w1.m1[1].addr,
                   w1.m2[1].registrar_nonce)
        keys == wsc_kdf(kdk)
    IN  IF ~wsc_parse_m2(pdu)
        THEN eap_wsc_send_nack(wbad, WSC_CONFIGURATION_ERROR_NO_ERROR, env)
        ELSE IF env.fail = "l_key_new"
        THEN Res(w1, <<>>, <<>>, NoStack)
        ELSE IF env.fail = "l_key_compute_dh_secret"
        THEN Res(w1, <<>>, <<>>, NoStack)
        ELSE IF env.fail = "l_checksum_new"
        \* returns with shared_secret as computed
        THEN Res(w1, <<>>, <<>>, [NoStack EXCEPT !.shared_secret = shared_secret])
        ELSE IF env.fail = "l_checksum_new_hmac"
        \* shared_secret and dhkey were zeroed before the test
        THEN Res(w1, <<>>, <<>>, [NoStack EXCEPT !.shared_secret = 0, !.dhkey = 0])
        ELSE IF env.fail = "wsc_kdf"
        \* kdk was zeroed before the test
        THEN Res(w1, <<>>, <<>>, [NoStack EXCEPT !.kdk = 0])
        ELSE eap_wsc_handle_m2_keys(w1, pdu, keys, env)

\* A frame is [len, op, flags, pdu]: len bytes, of which the first is op and the
\* second flags, and the rest (pkt + 2, len - 2) is pdu
\* case WSC_OP_START without the test of the state
eap_wsc_handle_request_start_AnyState(w, pkt, env) ==
    LET m1 == eap_wsc_send_response(w, wsc_build_m1(w.m1[1]))
    IN  IF pkt.len # 2 THEN Res(w, <<>>, <<>>, NoStack)
        ELSE IF env.fail = "wsc_build_m1" THEN Res(w, <<>>, <<>>, NoStack)
        ELSE Res([m1.wsc EXCEPT !.state = STATE_EXPECT_M2], m1.out, m1.nack, NoStack)

\* case WSC_OP_START of eap_wsc_handle_request
eap_wsc_handle_request_start(w, pkt, env) ==
    LET m1 == eap_wsc_send_response(w, wsc_build_m1(w.m1[1]))
    IN  IF pkt.len # 2 THEN Res(w, <<>>, <<>>, NoStack)
        ELSE IF w.state # STATE_EXPECT_START THEN Res(w, <<>>, <<>>, NoStack)
        ELSE IF env.fail = "wsc_build_m1" THEN Res(w, <<>>, <<>>, NoStack)
        ELSE Res([m1.wsc EXCEPT !.state = STATE_EXPECT_M2], m1.out, m1.nack, NoStack)

\* the switch (wsc->state) that treats STATE_FINISHED as STATE_EXPECT_M8
eap_wsc_handle_request_msg_NotTerminal(w, pkt, env) ==
    IF pkt.len <= 2 THEN Res(w, <<>>, <<>>, NoStack)
    ELSE CASE w.state = STATE_EXPECT_START -> Res(w, <<>>, <<>>, NoStack)
           [] w.state = STATE_EXPECT_M2 -> eap_wsc_handle_m2(w, pkt.pdu, env)
           [] w.state = STATE_EXPECT_M4 -> eap_wsc_handle_m4(w, pkt.pdu, env)
           [] w.state = STATE_EXPECT_M6 -> eap_wsc_handle_m6(w, pkt.pdu, env)
           [] w.state = STATE_EXPECT_M8 -> eap_wsc_handle_m8(w, pkt.pdu, env)
           [] w.state = STATE_FINISHED -> eap_wsc_handle_m8(w, pkt.pdu, env)

\* eap_wsc_handle_request after its switch (op): the switch (wsc->state)
eap_wsc_handle_request_msg(w, pkt, env) ==
    IF pkt.len <= 2 THEN Res(w, <<>>, <<>>, NoStack)
    ELSE CASE w.state = STATE_EXPECT_START -> Res(w, <<>>, <<>>, NoStack)
           [] w.state = STATE_EXPECT_M2 -> eap_wsc_handle_m2(w, pkt.pdu, env)
           [] w.state = STATE_EXPECT_M4 -> eap_wsc_handle_m4(w, pkt.pdu, env)
           [] w.state = STATE_EXPECT_M6 -> eap_wsc_handle_m6(w, pkt.pdu, env)
           [] w.state = STATE_EXPECT_M8 -> eap_wsc_handle_m8(w, pkt.pdu, env)
           [] w.state = STATE_FINISHED ->
                eap_wsc_send_nack(w, WSC_CONFIGURATION_ERROR_NO_ERROR, env)

\* eap_wsc_handle_request whose case WSC_OP_NACK falls through to the messages
eap_wsc_handle_request_NackFallsThrough(w, pkt, env) ==
    LET op == pkt.op
        flags == pkt.flags
    IN  IF pkt.len < 2 THEN Res(w, <<>>, <<>>, NoStack)
        ELSE IF flags # 0 THEN Res(w, <<>>, <<>>, NoStack)
        ELSE IF op = WSC_OP_START THEN eap_wsc_handle_request_start(w, pkt, env)
        ELSE IF op = WSC_OP_ACK \/ op = WSC_OP_DONE THEN Res(w, <<>>, <<>>, NoStack)
        ELSE IF op = WSC_OP_FRAG_ACK THEN Res(w, <<>>, <<>>, NoStack)
        ELSE eap_wsc_handle_request_msg(w, pkt, env)

\* eap_wsc_handle_request without the test of the flags
eap_wsc_handle_request_NoFlagsCheck(w, pkt, env) ==
    LET op == pkt.op
    IN  IF pkt.len < 2 THEN Res(w, <<>>, <<>>, NoStack)
        ELSE IF op = WSC_OP_START THEN eap_wsc_handle_request_start(w, pkt, env)
        ELSE IF op = WSC_OP_NACK THEN Res(w, <<>>, <<>>, NoStack)
        ELSE IF op = WSC_OP_ACK \/ op = WSC_OP_DONE THEN Res(w, <<>>, <<>>, NoStack)
        ELSE IF op = WSC_OP_FRAG_ACK THEN Res(w, <<>>, <<>>, NoStack)
        ELSE eap_wsc_handle_request_msg(w, pkt, env)

eap_wsc_handle_request(w, pkt, env) ==
    LET op == pkt.op
        flags == pkt.flags
    IN  IF pkt.len < 2 THEN Res(w, <<>>, <<>>, NoStack)
        ELSE IF flags # 0 THEN Res(w, <<>>, <<>>, NoStack)
        ELSE IF op = WSC_OP_START THEN eap_wsc_handle_request_start(w, pkt, env)
        ELSE IF op = WSC_OP_NACK THEN Res(w, <<>>, <<>>, NoStack)
        ELSE IF op = WSC_OP_ACK \/ op = WSC_OP_DONE THEN Res(w, <<>>, <<>>, NoStack)
        ELSE IF op = WSC_OP_FRAG_ACK THEN Res(w, <<>>, <<>>, NoStack)
        \* WSC_OP_MSG breaks out of the switch, and so does every op it does not name
        ELSE eap_wsc_handle_request_msg(w, pkt, env)

\* l_key_compute_dh_public
DhPublic(priv) == priv + 1

\* The session once eap_wsc_probe and eap_wsc_load_settings have returned:
\* l_new zeroes the structure, load_settings fills m1, private, the device
\* password ("12345670"), the secret nonces and the IVs
Loaded ==
    [m1 |-> <<[enrollee_nonce |-> 1, addr |-> 1, public_key |-> DhPublic(7)]>>,
     m2 |-> <<>>,
     sent_pdu |-> <<>>,
     private |-> 7,
     device_password |-> <<49, 50, 51, 52, 53, 54, 55, 48>>,
     e_snonce1 |-> 21, e_snonce2 |-> 22, iv1 |-> 31, iv2 |-> 32,
     psk1 |-> NoDigest, psk2 |-> NoDigest, r_hash2 |-> NoDigest,
     state |-> STATE_EXPECT_START,
     hmac_auth_key |-> 0,
     aes_cbc_128 |-> 0]

----------------------------------------------------------------------------
(* The life of a session: eap_wsc_probe, eap_wsc_load_settings, eap_wsc_remove *)

\* l_new(struct eap_wsc_state, 1): every pointer NULL, every buffer zero
ZeroState ==
    [m1 |-> <<>>, m2 |-> <<>>, sent_pdu |-> <<>>, private |-> 0,
     device_password |-> <<>>,
     e_snonce1 |-> 0, e_snonce2 |-> 0, iv1 |-> 0, iv2 |-> 0,
     psk1 |-> NoDigest, psk2 |-> NoDigest, r_hash2 |-> NoDigest,
     state |-> STATE_EXPECT_START,
     hmac_auth_key |-> 0,
     aes_cbc_128 |-> 0]

\* l_new(struct wsc_m1, 1)
ZeroM1 == [enrollee_nonce |-> 0, addr |-> 0, public_key |-> 0]

\* The method names the EAP engine may probe with
Names == {"WSC", "wsc", "TLS"}

\* strcasecmp(name, "WSC") == 0
IsWsc(name) == name \in {"WSC", "wsc"}

\* eap_wsc_probe: 0 and a zeroed session, or -ENOTSUP and none
eap_wsc_probe(name) ==
    IF ~IsWsc(name) THEN [ret |-> -1, data |-> <<>>]
    ELSE [ret |-> 0, data |-> <<ZeroState>>]

\* Bytes of a string: '0'..'9', 'A'..'F', 'a'..'f'
Digits == 48..57

UpperHex == 65..70

LowerHex == 97..102

l_ascii_isxdigit(c) == c \in Digits \cup UpperHex \cup LowerHex

\* wscutil.h: enum wsc_rf_band
WSC_RF_BAND_2_4_GHZ == 1
WSC_RF_BAND_5_0_GHZ == 2
WSC_RF_BAND_60_GHZ == 4

\* util_string_to_address: an address is a number above 0; 0 stands for every
\* string that is not six colon-separated octets
util_string_to_address(v) == v # 0

\* l_settings_get_uint: a number below 0 stands for a value that is not an
\* unsigned number
l_settings_get_uint(v) == v # <<>> /\ v[1] >= 0

\* The test of a configured DevicePassword: every byte a hex digit, at least 8
\* of them, without the test of the length
device_password_valid_AnyLength(pw) ==
    \A i \in 1..Len(pw) : l_ascii_isxdigit(pw[i])

\* The test of a configured DevicePassword: every byte a hex digit, at least 8
\* of them
device_password_valid(pw) ==
    /\ \A i \in 1..Len(pw) : l_ascii_isxdigit(pw[i])
    /\ ~(Len(pw) < 8)

\* The copy of a configured DevicePassword, left as it is
device_password_upper_AsIs(pw) == pw

\* The copy of a configured DevicePassword, 'a'..'f' made 'A'..'F'
device_password_upper(pw) ==
    [i \in 1..Len(pw) |->
        IF pw[i] >= 97 /\ pw[i] <= 102 THEN 65 + pw[i] - 97 ELSE pw[i]]

\* strdup("00000000")
DefaultPassword == <<48, 48, 48, 48, 48, 48, 48, 48>>

\* The library calls of eap_wsc_load_settings that may fail; short_public is
\* l_key_compute_dh_public returning fewer than 192 bytes
LoadFailures == {"none", "wsc_uuid_from_addr", "l_key_new",
                 "l_key_compute_dh_public", "short_public"}

\* eap_wsc_load_settings on the group [WSC] of settings: a key that is absent
\* is <<>>, one that is present is <<value>>.  The session it leaves and
\* what it returns
eap_wsc_load_settings(w, settings, env) ==
    LET w1 == [w EXCEPT !.m1 = <<ZeroM1>>]
        v == settings.EnrolleeMAC
        w2 == [w1 EXCEPT !.m1[1].addr = v[1],
                         !.m1[1].enrollee_nonce = settings.EnrolleeNonce]
        w3 == [w2 EXCEPT !.private = settings.PrivateKey]
        w4 == [w3 EXCEPT !.m1[1].public_key = DhPublic(w3.private)]
        u32 == settings.RFBand
        device_password == settings.DevicePassword
        w5 == [w4 EXCEPT !.device_password =
                             IF device_password # <<>>
                             THEN device_password_upper(device_password[1])
                             ELSE DefaultPassword]
        w6 == [w5 EXCEPT !.e_snonce1 = settings.E_SNonce1,
                         !.e_snonce2 = settings.E_SNonce2,
                         !.iv1 = settings.IV1, !.iv2 = settings.IV2]
    IN  IF v = <<>> THEN [wsc |-> w1, ret |-> FALSE]
        ELSE IF ~util_string_to_address(v[1]) THEN [wsc |-> w1, ret |-> FALSE]
        ELSE IF env.fail = "wsc_uuid_from_addr"
        THEN [wsc |-> [w1 EXCEPT !.m1[1].addr = v[1]], ret |-> FALSE]
        ELSE IF env.fail = "l_key_new" THEN [wsc |-> w2, ret |-> FALSE]
        ELSE IF env.fail = "l_key_compute_dh_public" THEN [wsc |-> w3, ret |-> FALSE]
        ELSE IF env.fail = "short_public" THEN [wsc |-> w4, ret |-> FALSE]
        ELSE IF ~l_settings_get_uint(u32) THEN [wsc |-> w4, ret |-> FALSE]
        ELSE IF u32[1] \notin {WSC_RF_BAND_2_4_GHZ, WSC_RF_BAND_5_0_GHZ,
                               WSC_RF_BAND_60_GHZ}
        THEN [wsc |-> w4, ret |-> FALSE]
        ELSE IF device_password # <<>> /\ ~device_password_valid(device_password[1])
        THEN [wsc |-> w4, ret |-> FALSE]
        ELSE [wsc |-> w6, ret |-> TRUE]

\* One call that gives memory or a handle back: fn the function, field the
\* member of the session it is called on, null whether that member is NULL,
\* zeroed whether the memory was overwritten with zeros first
Release(fn, field, null) ==
    [fn |-> fn, field |-> field, null |-> null, zeroed |-> FALSE]

\* eap_wsc_remove that frees the device password twice and the M2 never
eap_wsc_remove_Unbalanced(w) ==
    [calls |-> <<Release("l_free", "device_password", w.device_password = <<>>),
                 Release("l_key_free", "private", w.private = 0),
                 Release("l_free", "sent_pdu", w.sent_pdu = <<>>),
                 Release("l_checksum_free", "hmac_auth_key", w.hmac_auth_key = 0),
                 Release("l_cipher_free", "aes_cbc_128", w.aes_cbc_128 = 0),
                 Release("l_free", "m1", w.m1 = <<>>),
                 Release("l_free", "device_password", w.device_password = <<>>),
                 Release("l_free", "wsc", FALSE)>>,
     wsc |-> [w EXCEPT !.sent_pdu = <<>>]]

\* eap_wsc_remove: the calls that release, in order, and the session as it
\* is when l_free(wsc) gives it back
eap_wsc_remove(w) ==
    [calls |-> <<Release("l_free", "device_password", w.device_password = <<>>),
                 Release("l_key_free", "private", w.private = 0),
                 Release("l_free", "sent_pdu", w.sent_pdu = <<>>),
                 Release("l_checksum_free", "hmac_auth_key", w.hmac_auth_key = 0),
                 Release("l_cipher_free", "aes_cbc_128", w.aes_cbc_128 = 0),
                 Release("l_free", "m1", w.m1 = <<>>),
                 Release("l_free", "m2", w.m2 = <<>>),
                 Release("l_free", "wsc", FALSE)>>,
     wsc |-> [w EXCEPT !.sent_pdu = <<>>]]

----------------------------------------------------------------------------
(* The peer: the frames a Registrar, or anyone else on the link, may send *)

\* The Registrar's secret nonces and IV, a nonce and a key that are not the
\* session's, and a device password that is not the Enrollee's ("00000000")
Peer == [r_snonce1 |-> 41, r_snonce2 |-> 42, wrong_snonce |-> 43, iv |-> 33,
         bad_key |-> -1,
         wrong_password |-> <<48, 48, 48, 48, 48, 48, 48, 48>>]

\* WSC 2.0.5, 7.4: the halves of a device password of N bytes: the first
\* N/2 rounded up, the second the rest
Half1(pw) == SubSeq(pw, 1, (Len(pw) + 1) \div 2)

Half2(pw) == SubSeq(pw, ((Len(pw) + 1) \div 2) + 1, Len(pw))

\* The keys a Registrar that owns public key pk and chose nonce rn derives
PeerKeys(w, rn, pk) ==
    wsc_kdf(KDK(SHA256(DhSecret(pk, w.private)), w.m1[1].enrollee_nonce, w.m1[1].addr, rn))

\* What the Registrar of the stored M2 holds
PeerRn(w) == IF w.m2 = <<>> THEN 0 ELSE w.m2[1].registrar_nonce

PeerPk(w) == IF w.m2 = <<>> THEN 0 ELSE w.m2[1].public_key

PeerAuthKey(w) == PeerKeys(w, PeerRn(w), PeerPk(w)).auth_key

PeerWrapKey(w) == PeerKeys(w, PeerRn(w), PeerPk(w)).keywrap_key

\* body with the Authenticator over prev || body, under the key, or under
\* another one
Signed(key, prev, body, good) ==
    [body EXCEPT !.auth =
        HMAC(IF good THEN key ELSE Peer.bad_key,
             <<prev, WithoutAuthenticator(body)>>, AUTH_LEN)]

M2Pdu(w, prev, rn, pk, good) ==
    Signed(PeerKeys(w, rn, pk).auth_key, prev,
           [NoPdu EXCEPT !.type = "M2", !.en = w.m1[1].enrollee_nonce,
                         !.rn = rn, !.pk = pk],
           good)

EncVariants == {"good", "short", "ragged", "badpad", "padzero", "padbig",
                "wrongkey", "badtlv", "badkwa", "wrongnonce"}

\* length of the attributes in a plain text: the nonce attribute, or creds
\* credentials of 32 bytes, and the KeyWrapAuthenticator attribute
TlvLen(creds) ==
    IF creds = 0 THEN SNONCE_ATTR_LEN + AUTH_ATTR_LEN ELSE 32 * creds + AUTH_ATTR_LEN

\* An Encrypted Settings attribute made by the peer, well-formed ("good") or
\* wrong in one way
EncOf(w, snonce, creds, v) ==
    LET tlv == TlvLen(creds)
        padlen == AES_BLOCK - (tlv % AES_BLOCK)
        nonce == IF v = "wrongnonce" THEN Peer.wrong_snonce ELSE snonce
        last == CASE v = "badpad" -> padlen + 1
                  [] v = "padzero" -> 0
                  [] v = "padbig" -> 200
                  [] OTHER -> padlen
        tail == Fill(padlen - 1, padlen) \o <<last>>
        pt0 == [tlvlen |-> tlv, tail |-> tail, ok |-> (v # "badtlv"),
                snonce |-> nonce, creds |-> creds, kwa |-> NoDigest]
        pt == [pt0 EXCEPT !.kwa =
                  HMAC(IF v = "badkwa" THEN Peer.bad_key ELSE PeerAuthKey(w),
                       <<WithoutKeyWrapAuthenticator(pt0, tlv)>>, AUTH_LEN)]
        key == IF v = "wrongkey" THEN Peer.bad_key ELSE PeerWrapKey(w)
    IN  CASE v = "short" ->
                [len |-> 8, iv |-> 0, key |-> key, pt |-> NoPlain]
          [] v = "ragged" ->
                [len |-> IV_LEN + 24, iv |-> Peer.iv, key |-> key,
                 pt |-> [NoPlain EXCEPT !.tail = Fill(24, 170)]]
          [] OTHER ->
                [len |-> IV_LEN + PlainLen(pt), iv |-> Peer.iv, key |-> key, pt |-> pt]

\* R-Hash over a secret nonce and the half of the password the Registrar knows
RHash(w, snonce, half) ==
    HMAC(PeerAuthKey(w),
         <<snonce, HMAC(PeerAuthKey(w), <<half>>, PSK_LEN), w.m1[1].public_key,
           PeerPk(w)>>, HASH_LEN)

M4Pdu(w, prev, h1ok, h2ok, v, good) ==
    Signed(PeerAuthKey(w), prev,
           [NoPdu EXCEPT
               !.type = "M4", !.en = w.m1[1].enrollee_nonce, !.rn = PeerRn(w),
               !.h1 = RHash(w, Peer.r_snonce1,
                            Half1(IF h1ok THEN w.device_password
                                  ELSE Peer.wrong_password)),
               !.h2 = RHash(w, Peer.r_snonce2,
                            Half2(IF h2ok THEN w.device_password
                                  ELSE Peer.wrong_password)),
               !.enc = EncOf(w, Peer.r_snonce1, 0, v)],
           good)

M6Pdu(w, prev, v, good) ==
    Signed(PeerAuthKey(w), prev,
           [NoPdu EXCEPT !.type = "M6", !.en = w.m1[1].enrollee_nonce,
                         !.rn = PeerRn(w), !.enc = EncOf(w, Peer.r_snonce2, 0, v)],
           good)

M8Pdu(w, prev, creds, v, good) ==
    Signed(PeerAuthKey(w), prev,
           [NoPdu EXCEPT !.type = "M8", !.en = w.m1[1].enrollee_nonce,
                         !.rn = PeerRn(w), !.enc = EncOf(w, 0, creds, v)],
           good)

\* The message a Registrar that follows the protocol sends next
GoodM2s(w, prev) ==
    {M2Pdu(w, prev, rn, pk, TRUE) : rn \in 1..MaxNonce, pk \in 1..MaxPubKey}

GoodM4(w, prev) == M4Pdu(w, prev, TRUE, TRUE, "good", TRUE)

GoodM6(w, prev) == M6Pdu(w, prev, "good", TRUE)

GoodM8(w, prev) == M8Pdu(w, prev, 1, "good", TRUE)

\* The M2 the session accepted (the stored M2, over M1), sent again
ReplayedM2(w) ==
    M2Pdu(w, wsc_build_m1(w.m1[1]), PeerRn(w), PeerPk(w), TRUE)

Expected(w, prev) ==
    CASE w.state = STATE_EXPECT_M4 -> GoodM4(w, prev)
      [] w.state = STATE_EXPECT_M6 -> GoodM6(w, prev)
      [] w.state = STATE_EXPECT_M8 -> GoodM8(w, prev)
      [] OTHER -> M2Pdu(w, prev, 1, 1, TRUE)

\* The expected message with its Authenticator computed over prev and the
\* message up to its last 8 bytes, the attribute's header included
SignedUptoLast8(w, prev) ==
    LET pdu == Expected(w, prev)
        key == IF pdu.type = "M2" THEN PeerKeys(w, pdu.rn, pdu.pk).auth_key
               ELSE PeerAuthKey(w)
    IN  [pdu EXCEPT !.auth = HMAC(key, <<prev, Truncated(pdu, AUTH_LEN)>>, AUTH_LEN)]

\* Message bodies the peer may send: every variant of the message type the
\* session waits for, and one message of every other type
Pdus(w, prev) ==
    {JunkPdu, M2Pdu(w, prev, 1, 1, TRUE), GoodM4(w, prev), GoodM6(w, prev),
     GoodM8(w, prev), SignedUptoLast8(w, prev)}
    \cup (IF w.state > STATE_EXPECT_M2 THEN {ReplayedM2(w)} ELSE {})
    \cup (IF w.state = STATE_EXPECT_M2
          THEN {M2Pdu(w, prev, rn, pk, g) :
                    rn \in 1..MaxNonce, pk \in 1..MaxPubKey, g \in BOOLEAN}
          ELSE {})
    \cup (IF w.state = STATE_EXPECT_M4
          THEN {M4Pdu(w, prev, TRUE, TRUE, v, g) : v \in EncVariants, g \in BOOLEAN}
               \cup {M4Pdu(w, prev, h1, h2, "good", TRUE) : h1, h2 \in BOOLEAN}
          ELSE {})
    \cup (IF w.state = STATE_EXPECT_M6
          THEN {M6Pdu(w, prev, v, g) : v \in EncVariants, g \in BOOLEAN}
          ELSE {})
    \cup (IF w.state = STATE_EXPECT_M8
          THEN {M8Pdu(w, prev, 1, v, g) :
                    v \in EncVariants \ {"wrongnonce"}, g \in BOOLEAN}
               \cup {M8Pdu(w, prev, c, "good", TRUE) : c \in {0, 4}}
          ELSE {})

Pkt(len, op, flags, pdu) == [len |-> len, op |-> op, flags |-> flags, pdu |-> pdu]

\* op bytes: the six operations, and two values that are none of them
Ops == {0, WSC_OP_START, WSC_OP_ACK, WSC_OP_NACK, WSC_OP_MSG, WSC_OP_DONE,
        WSC_OP_FRAG_ACK, 7}

Frames(w, prev) ==
    \* shorter than the two bytes of header
    {Pkt(l, 0, 0, NoPdu) : l \in {0, 1}}
    \* the header alone
    \cup {Pkt(2, op, 0, NoPdu) : op \in Ops}
    \cup {Pkt(2, op, f, NoPdu) :
              op \in {WSC_OP_START, WSC_OP_MSG}, f \in {WSC_FLAG_MF, WSC_FLAG_LF}}
    \* a header and a body
    \cup {Pkt(3, WSC_OP_START, 0, JunkPdu)}
    \cup {Pkt(3, op, 0, Expected(w, prev)) : op \in Ops \ {WSC_OP_START}}
    \cup {Pkt(3, WSC_OP_MSG, 0, pdu) : pdu \in Pdus(w, prev)}
    \cup {Pkt(3, WSC_OP_MSG, WSC_FLAG_MF, Expected(w, prev))}

\* The library calls an event can make, by the state it is handled in
Calls(state) ==
    CASE state = STATE_EXPECT_START -> {"wsc_build_m1"}
      [] state = STATE_EXPECT_M2 ->
            {"l_key_new", "l_key_compute_dh_secret", "l_checksum_new",
             "l_checksum_new_hmac", "wsc_kdf", "wsc_build_m3"}
      [] state \in {STATE_EXPECT_M4, STATE_EXPECT_M6} ->
            {"wsc_build_encrypted_settings", "l_cipher_encrypt", "wsc_build_msg",
             "wsc_build_wsc_nack"}
      [] state = STATE_EXPECT_M8 -> {"wsc_build_wsc_nack", "wsc_build_wsc_done"}
      [] OTHER -> {}

\* The environment's answers that an event in session w can tell apart
Envs(w, fails) ==
    {[fail |-> f, partial |-> p] :
        f \in fails \cap ({"none"} \cup Calls(w.state)),
        p \in IF w.state = STATE_EXPECT_M2 THEN BOOLEAN ELSE {FALSE}}

----------------------------------------------------------------------------
(* The helpers called on their own, on inputs that no exchange has to produce *)

\* The environment in which every library call succeeds
AllSucceed == [fail |-> "none", partial |-> FALSE]

\* A session whose handles have been installed
Keyed == [Loaded EXCEPT !.hmac_auth_key = 6, !.aes_cbc_128 = 5]

NoCall ==
    [fn |-> "none", enc |-> NoEnc, in |-> NoPlain, in_len |-> 0,
     d |-> [ok |-> FALSE, pt |-> NoPlain, out_len |-> 0, decrypted |-> FALSE],
     e |-> [ok |-> FALSE, out |-> NoEnc, out_len |-> 0],
     checked |-> FALSE, put |-> NoPlain, put_checked |-> FALSE]

\* Decrypted data of n bytes: a run of byte a, then k times byte b
Buffers(n) ==
    {Fill(n - k, a) \o Fill(k, b) : k \in 0..n, a \in PadBytes, b \in PadBytes}

\* Encrypted Settings data of every length up to the IV and MaxBlocks blocks,
\* and one byte more; those of whole blocks decrypt to the buffers above
Payloads ==
    {[len |-> l, iv |-> Keyed.iv1, key |-> Keyed.aes_cbc_128,
      pt |-> [NoPlain EXCEPT
                 !.tail = IF l > IV_LEN THEN Fill(l - IV_LEN, 1) ELSE <<>>]] :
        l \in {l \in 0..(IV_LEN + AES_BLOCK * MaxBlocks + 1) :
                  l < IV_LEN + AES_BLOCK \/ (l - IV_LEN) % AES_BLOCK # 0}}
    \cup UNION {{[len |-> IV_LEN + AES_BLOCK * n, iv |-> Keyed.iv1,
                  key |-> Keyed.aes_cbc_128, pt |-> [NoPlain EXCEPT !.tail = buf]] :
                    buf \in Buffers(AES_BLOCK * n)} : n \in 1..MaxBlocks}

\* What eap_wsc_send_m5 and eap_wsc_send_m7 give encrypted_settings_encrypt:
\* the built attributes with their KeyWrapAuthenticator
BuiltSettings ==
    {keywrap_authenticator_put(Keyed, es, es.tlvlen) :
        es \in {wsc_build_m5_encrypted_settings([e_snonce1 |-> Keyed.e_snonce1]),
                wsc_build_m7_encrypted_settings([e_snonce2 |-> Keyed.e_snonce2])}}

\* Plain text of every length up to MaxPlain, and the built attributes
Plains ==
    {[NoPlain EXCEPT !.tail = Fill(n, a)] : n \in 0..MaxPlain, a \in PadBytes}
    \cup BuiltSettings

\* encrypted_settings_decrypt on enc
DecryptCall(enc) ==
    /\ call' = [NoCall EXCEPT !.fn = "decrypt", !.enc = enc,
                              !.d = encrypted_settings_decrypt(Keyed, enc)]
    /\ UNCHANGED <<wsc, pre, ev, lastOut, lastNack, stack, peer_prev, sent, hp,
                   faults, pwfail, eap>>

\* encrypted_settings_encrypt on the first in_len bytes of in, with IV iv
EncryptCall(iv, in) ==
    /\ call' = [NoCall EXCEPT
                    !.fn = "encrypt", !.in = in, !.in_len = PlainLen(in),
                    !.enc = [NoEnc EXCEPT !.iv = iv],
                    !.e = encrypted_settings_encrypt(Keyed, iv, in, PlainLen(in),
                                                     AllSucceed)]
    /\ UNCHANGED <<wsc, pre, ev, lastOut, lastNack, stack, peer_prev, sent, hp,
                   faults, pwfail, eap>>

\* encrypted_settings_encrypt on the first in_len bytes of in, with IV iv, and
\* encrypted_settings_decrypt on what it returns
EncryptDecryptCall(iv, in) ==
    LET e == encrypted_settings_encrypt(Keyed, iv, in, PlainLen(in), AllSucceed)
    IN  /\ call' = [NoCall EXCEPT
                        !.fn = "encrypt_decrypt", !.in = in, !.in_len = PlainLen(in),
                        !.enc = [NoEnc EXCEPT !.iv = iv],
                        !.e = e,
                        !.d = IF e.ok THEN encrypted_settings_decrypt(Keyed, e.out)
                              ELSE NoCall.d]
        /\ UNCHANGED <<wsc, pre, ev, lastOut, lastNack, stack, peer_prev, sent, hp,
                       faults, pwfail, eap>>

\* encrypted_settings_decrypt on enc and, when it returns a plain text,
\* encrypted_settings_encrypt on that plain text with the IV of enc
RoundTripCall(enc) ==
    LET d == encrypted_settings_decrypt(Keyed, enc)
    IN  /\ call' = [NoCall EXCEPT
                        !.fn = "roundtrip", !.enc = enc, !.d = d,
                        !.in = d.pt, !.in_len = d.out_len,
                        !.e = IF d.ok
                              THEN encrypted_settings_encrypt(Keyed, enc.iv, d.pt,
                                                              d.out_len, AllSucceed)
                              ELSE NoCall.e]
        /\ UNCHANGED <<wsc, pre, ev, lastOut, lastNack, stack, peer_prev, sent, hp,
                       faults, pwfail, eap>>

\* Attributes of Encrypted Settings, a secret nonce or creds credentials, with
\* in their last 8 bytes: nothing, or the HMAC under the AuthKey or another
\* key of the attributes up to their last 12 bytes or up to their last 8
Settings ==
    LET bare == {[NoPlain EXCEPT !.tlvlen = TlvLen(c), !.ok = TRUE,
                                 !.snonce = IF c = 0 THEN n ELSE 0, !.creds = c] :
                    n \in 1..MaxNonce, c \in 0..MaxCreds}
    IN  bare \cup
        {[pt EXCEPT !.kwa = HMAC(k, <<PlainPrefix(pt, pt.tlvlen, pt.tlvlen - cut)>>,
                                 AUTH_LEN)] :
            pt \in bare, k \in {Keyed.hmac_auth_key, Peer.bad_key},
            cut \in {AUTH_LEN, AUTH_ATTR_LEN}}

\* keywrap_authenticator_check on the attributes in, and on what
\* keywrap_authenticator_put makes of them
KeywrapCall(in) ==
    LET put == keywrap_authenticator_put(Keyed, in, in.tlvlen)
    IN  /\ call' = [NoCall EXCEPT
                        !.fn = "keywrap", !.in = in, !.in_len = in.tlvlen,
                        !.checked = keywrap_authenticator_check(Keyed, in, in.tlvlen),
                        !.put = put,
                        !.put_checked =
                            keywrap_authenticator_check(Keyed, put, in.tlvlen)]
        /\ UNCHANGED <<wsc, pre, ev, lastOut, lastNack, stack, peer_prev, sent, hp,
                       faults, pwfail, eap>>

\* One call, from the loaded state
NextPure ==
    /\ call = NoCall
    /\ \/ \E enc \in Payloads : DecryptCall(enc)
       \/ \E iv \in {Keyed.iv1, Keyed.iv2} : \E in \in Plains : EncryptCall(iv, in)
       \/ \E enc \in Payloads : RoundTripCall(enc)
       \/ \E in \in Settings : KeywrapCall(in)
       \/ \E iv \in {Keyed.iv1, Keyed.iv2} : \E in \in Plains :
              EncryptDecryptCall(iv, in)

----------------------------------------------------------------------------
(* The state machine *)

Kinds == {"M1", "M3", "M5", "M7", "DONE", "NACK"}

NoEvent == [pkt |-> Pkt(-1, 0, 0, NoPdu), env |-> [fail |-> "none", partial |-> FALSE]]

\* The configuration that makes the session Loaded: DevicePassword "12345670"
DefaultSettings ==
    [EnrolleeMAC |-> <<1>>, RFBand |-> <<WSC_RF_BAND_2_4_GHZ>>,
     DevicePassword |-> <<<<49, 50, 51, 52, 53, 54, 55, 48>>>>,
     EnrolleeNonce |-> 1, PrivateKey |-> 7,
     E_SNonce1 |-> 21, E_SNonce2 |-> 22, IV1 |-> 31, IV2 |-> 32]

\* The outer EAP layer before eap_wsc_probe: probed is what eap_wsc_probe
\* returned, data whether eap_set_data holds a session, settings and loaded
\* what eap_wsc_load_settings was given and returned, calls the functions of
\* the EAP layer the method has called, removed what eap_wsc_remove released
NoSession ==
    [probed |-> <<>>, data |-> FALSE, settings |-> DefaultSettings,
     loaded |-> <<>>, env |-> AllSucceed, calls |-> {},
     removed |-> <<>>]

\* The outer EAP layer once eap_wsc_probe and eap_wsc_load_settings succeeded
Attached ==
    [NoSession EXCEPT !.probed = <<0>>, !.data = TRUE, !.loaded = <<TRUE>>,
                      !.calls = {"eap_set_data", "eap_get_data"}]

Init ==
    /\ wsc = Loaded
    /\ pre = Loaded
    /\ ev = NoEvent
    /\ lastOut = <<>>
    /\ lastNack = <<>>
    /\ stack = NoStack
    /\ peer_prev = NoPdu
    /\ sent = [k \in Kinds |-> 0]
    /\ hp = 0
    /\ faults = 0
    /\ pwfail = FALSE
    /\ call = NoCall
    /\ eap = Attached

\* Whether pkt continues the recorded exchange START, M2, M4, M6, M8 after n
\* of its frames
Continues(n, w, prev, pkt) ==
    /\ pkt.flags = 0
    /\ CASE n = 0 -> pkt = Pkt(2, WSC_OP_START, 0, NoPdu)
         [] n = 1 -> pkt.op = WSC_OP_MSG /\ pkt.len > 2 /\ pkt.pdu \in GoodM2s(w, prev)
         [] n = 2 -> pkt.op = WSC_OP_MSG /\ pkt.len > 2 /\ pkt.pdu = GoodM4(w, prev)
         [] n = 3 -> pkt.op = WSC_OP_MSG /\ pkt.len > 2 /\ pkt.pdu = GoodM6(w, prev)
         [] n = 4 -> pkt.op = WSC_OP_MSG /\ pkt.len > 2 /\ pkt.pdu = GoodM8(w, prev)
         [] OTHER -> FALSE

Count(out, k) == Cardinality({i \in 1..Len(out) : out[i].pdu.type = k})

\* eap_wsc_handle_request on frame pkt, with the environment answering env
HandleRequest(pkt, env) ==
    LET r == eap_wsc_handle_request(wsc, pkt, env)
        msgs == SelectSeq(r.out, LAMBDA f : f.op = WSC_OP_MSG)
    IN  /\ wsc' = r.wsc
        /\ pre' = wsc
        /\ ev' = [pkt |-> pkt, env |-> env]
        /\ lastOut' = r.out
        /\ lastNack' = r.nack
        /\ stack' = r.stack
        /\ peer_prev' = IF msgs = <<>> THEN peer_prev ELSE msgs[Len(msgs)].pdu
        /\ sent' = [k \in Kinds |->
                        IF sent[k] + Count(r.out, k) > MaxSent THEN MaxSent
                        ELSE sent[k] + Count(r.out, k)]
        /\ hp' = IF hp >= 0 /\ Continues(hp, wsc, peer_prev, pkt) /\ env.fail = "none"
                 THEN hp + 1 ELSE -1
        /\ faults' = IF env.fail = "none" THEN faults ELSE faults + 1
        /\ call' = call
        /\ eap' = [eap EXCEPT !.calls =
                        @ \cup (IF r.out = <<>> THEN {} ELSE {"eap_send_response"})]
        /\ pwfail' = (pwfail \/ (wsc.state = STATE_EXPECT_M4 /\ \E i \in 1..Len(r.out) :
                        /\ r.out[i].op = WSC_OP_NACK
                        /\ r.out[i].pdu.err =
                               WSC_CONFIGURATION_ERROR_DEVICE_PASSWORD_AUTH_FAILURE))

\* Every library call succeeds
Next ==
    \E pkt \in Frames(wsc, peer_prev) : \E env \in Envs(wsc, {"none"}) :
        HandleRequest(pkt, env)

Spec == Init /\ [][Next]_vars

\* Any one library call of an event may fail
NextFail ==
    \E pkt \in Frames(wsc, peer_prev) :
        \E env \in Envs(wsc, IF faults < MaxFaults THEN Failures ELSE {"none"}) :
            HandleRequest(pkt, env)

SpecFail == Init /\ [][NextFail]_vars

\* The helpers on their own
SpecPure == Init /\ [][NextPure]_vars

\* A DevicePassword of n bytes that repeats pat
Password(pat, n) == [i \in 1..n |-> pat[((i - 1) % Len(pat)) + 1]]

\* "12345670", "deadbeef12", "DEADBEEF12", and '1' followed by a byte next to
\* the hex digits: '/', ':', '@', 'G', '`', 'g'
Patterns ==
    {<<49, 50, 51, 52, 53, 54, 55, 48>>,
     <<100, 101, 97, 100, 98, 101, 101, 102, 49, 50>>,
     <<68, 69, 65, 68, 66, 69, 69, 70, 49, 50>>}
    \cup {<<49, c>> : c \in {47, 58, 64, 71, 96, 103}}

\* The configurations eap_wsc_load_settings may be given
SettingsGiven ==
    {[DefaultSettings EXCEPT !.EnrolleeMAC = mac, !.RFBand = band,
                             !.DevicePassword = pw] :
        mac \in {<<>>, <<0>>, <<1>>},
        band \in {<<>>, <<-1>>} \cup {<<b>> : b \in 0..MaxBand},
        pw \in {<<>>} \cup {<<Password(pat, n)>> : pat \in Patterns,
                                                  n \in 0..MaxPassword}}

\* The session before eap_wsc_probe: none
InitLife ==
    /\ wsc = ZeroState
    /\ pre = ZeroState
    /\ ev = NoEvent
    /\ lastOut = <<>>
    /\ lastNack = <<>>
    /\ stack = NoStack
    /\ peer_prev = NoPdu
    /\ sent = [k \in Kinds |-> 0]
    /\ hp = 0
    /\ faults = 0
    /\ pwfail = FALSE
    /\ call = NoCall
    /\ eap = NoSession

\* eap_wsc_probe(eap, name)
Probe(name) ==
    LET r == eap_wsc_probe(name)
    IN  /\ eap.probed = <<>>
        /\ wsc' = IF r.data = <<>> THEN wsc ELSE r.data[1]
        /\ pre' = wsc
        /\ eap' = [eap EXCEPT !.probed = <<r.ret>>, !.data = (r.data # <<>>),
                              !.calls = IF r.data = <<>> THEN @
                                        ELSE @ \cup {"eap_set_data"}]
        /\ UNCHANGED <<ev, lastOut, lastNack, stack, peer_prev, sent, hp, faults,
                       pwfail, call>>

\* eap_wsc_load_settings(eap, settings, prefix), once, after a successful probe
LoadSettings(settings, env) ==
    LET r == eap_wsc_load_settings(wsc, settings, env)
    IN  /\ eap.data /\ eap.loaded = <<>>
        /\ wsc' = r.wsc
        /\ pre' = wsc
        /\ eap' = [eap EXCEPT !.settings = settings, !.env = env,
                              !.loaded = <<r.ret>>,
                              !.calls = @ \cup {"eap_get_data"}]
        /\ UNCHANGED <<ev, lastOut, lastNack, stack, peer_prev, sent, hp, faults,
                       pwfail, call>>

\* eap_wsc_remove(eap), whenever there is a session
Remove ==
    LET r == eap_wsc_remove(wsc)
    IN  /\ eap.data
        /\ wsc' = r.wsc
        /\ pre' = wsc
        /\ eap' = [eap EXCEPT !.data = FALSE, !.removed = r.calls,
                              !.calls = @ \cup {"eap_get_data", "eap_set_data"}]
        /\ UNCHANGED <<ev, lastOut, lastNack, stack, peer_prev, sent, hp, faults,
                       pwfail, call>>

\* The frames of the recorded exchange, and every M2
Exchange(w, prev) ==
    {pkt \in Frames(w, prev) :
        \/ hp >= 0 /\ Continues(hp, w, prev, pkt)
        \/ pkt.op = WSC_OP_MSG /\ pkt.pdu.type = "M2"}

\* A session from eap_wsc_probe to eap_wsc_remove; requests are delivered
\* once eap_wsc_load_settings has succeeded
NextLife ==
    \/ \E name \in Names : Probe(name)
    \/ \E settings \in SettingsGiven :
           \E f \in {"none", "l_key_new", "l_key_compute_dh_public", "short_public"} :
               LoadSettings(settings, [fail |-> f, partial |-> FALSE])
    \/ /\ eap.data /\ eap.loaded = <<TRUE>>
       /\ \E pkt \in Exchange(wsc, peer_prev) : \E env \in Envs(wsc, {"none"}) :
              HandleRequest(pkt, env)
    \/ Remove

SpecLife == InitLife /\ [][NextLife]_vars

----------------------------------------------------------------------------
(* Properties of one event: pre is the session before the last event, ev the
   event, wsc the session after it, lastOut what it transmitted *)

\* The last event transmitted nothing and left every field of the session
Ignored == lastOut = <<>> /\ wsc = pre

\* The last event transmitted exactly one frame, of operation op, carrying a
\* message of the given type
Emitted(op, type) ==
    /\ Len(lastOut) = 1
    /\ lastOut[1].op = op
    /\ lastOut[1].flags = 0
    /\ lastOut[1].pdu.type = type

\* The last event was a WSC_OP_MSG frame with a body and no flags
IsMsg == ev.pkt.len > 2 /\ ev.pkt.flags = 0 /\ ev.pkt.op = WSC_OP_MSG

\* The message type a state waits for
Awaited(state) ==
    CASE state = STATE_EXPECT_M2 -> "M2"
      [] state = STATE_EXPECT_M4 -> "M4"
      [] state = STATE_EXPECT_M6 -> "M6"
      [] state = STATE_EXPECT_M8 -> "M8"
      [] OTHER -> "none"

\* The Authenticator of the last event's message is the HMAC, under the
\* AuthKey of the exchange, of the Enrollee's last message and this one
Verifies ==
    LET pdu == ev.pkt.pdu
        key == IF pdu.type = "M2" THEN PeerKeys(pre, pdu.rn, pdu.pk).auth_key
               ELSE PeerAuthKey(pre)
    IN  pdu.auth =
            HMAC(key, pre.sent_pdu \o <<WithoutAuthenticator(pdu)>>, AUTH_LEN)

\* C1: every event leaves the state where it was or moves it one step along
\* ExpectStart, ExpectM2, ExpectM4, ExpectM6, ExpectM8, Finished; it never
\* moves it backward and never skips a state
C1_StateAdvancesOneStep ==
    /\ wsc.state \in STATE_EXPECT_START..STATE_FINISHED
    /\ wsc.state = pre.state \/ wsc.state = pre.state + 1

C1_Witness == pre.state = STATE_EXPECT_M8 /\ wsc.state = STATE_FINISHED

HappyOut == <<"M1", "M3", "M5", "M7", "DONE">>

HappyState == <<STATE_EXPECT_M2, STATE_EXPECT_M4, STATE_EXPECT_M6, STATE_EXPECT_M8,
                STATE_FINISHED>>

\* C2: from a freshly loaded session, after the first k of START, a valid M2,
\* M4, M6 and M8, the Enrollee has sent exactly the first k of M1, M3, M5, M7,
\* DONE, one by inbound frame, the last of them in the last event, and no
\* NACK; after all five the state is Finished
C2_HappyPath ==
    hp \in 1..5 =>
        /\ Emitted(IF hp = 5 THEN WSC_OP_DONE ELSE WSC_OP_MSG, HappyOut[hp])
        /\ wsc.state = HappyState[hp]
        /\ \A k \in 1..5 : sent[HappyOut[k]] = IF k <= hp THEN 1 ELSE 0
        /\ sent["NACK"] = 0

C2_Witness == hp = 5 /\ wsc.state = STATE_FINISHED /\ Emitted(WSC_OP_DONE, "DONE")

\* The last event was a START frame without flags, whatever its length
IsStartOp == ev.pkt.len >= 2 /\ ev.pkt.flags = 0 /\ ev.pkt.op = WSC_OP_START

\* The last event was a START frame of the two bytes of header alone
IsBareStart == IsStartOp /\ ev.pkt.len = 2

\* C3 as stated: in ExpectStart every START frame makes the Enrollee send M1
\* and move to ExpectM2, every frame of another op is ignored, and a START in
\* another state is ignored
C3_EveryStartFrame ==
    /\ (pre.state = STATE_EXPECT_START /\ IsStartOp) =>
            (Emitted(WSC_OP_MSG, "M1") /\ wsc.state = STATE_EXPECT_M2)
    /\ (pre.state = STATE_EXPECT_START /\ ev.pkt.len >= 2
            /\ ev.pkt.op # WSC_OP_START) => Ignored
    /\ (pre.state # STATE_EXPECT_START /\ ev.pkt.len >= 2
            /\ ev.pkt.op = WSC_OP_START) => Ignored

\* C3: in ExpectStart a START frame that is the two-byte header alone, without
\* flags, makes the Enrollee send M1 built from its M1 fields, keep it as the
\* last message sent and move to ExpectM2; every other frame received in
\* ExpectStart, a START with a payload among them, is ignored, and so is a
\* START in any other state
C3_BareStartFrame ==
    /\ (pre.state = STATE_EXPECT_START /\ IsBareStart) =>
            /\ lastOut = <<Frame(WSC_OP_MSG, wsc_build_m1(pre.m1[1]))>>
            /\ wsc = [pre EXCEPT !.state = STATE_EXPECT_M2,
                                 !.sent_pdu = <<wsc_build_m1(pre.m1[1])>>]
    /\ (pre.state = STATE_EXPECT_START /\ ev.pkt.len >= 0 /\ ~IsBareStart) => Ignored
    /\ (pre.state # STATE_EXPECT_START /\ ev.pkt.len >= 2
            /\ ev.pkt.op = WSC_OP_START) => Ignored

C3_Witness ==
    pre.state = STATE_EXPECT_START /\ IsBareStart /\ wsc.state = STATE_EXPECT_M2

\* C4: a call of eap_wsc_send_nack with NO_ERROR transmits nothing and changes
\* no field of the session (the M2 a failed parse has written into is the
\* handler's doing, before the call); a call with another code transmits one
\* NACK frame that carries the code, and changes no field either
C4_NackPolicy ==
    /\ Len(lastNack) <= 1
    /\ lastNack = <<WSC_CONFIGURATION_ERROR_NO_ERROR>> =>
            (lastOut = <<>> /\ wsc = [pre EXCEPT !.m2 = wsc.m2])
    /\ (lastNack # <<>> /\ lastNack # <<WSC_CONFIGURATION_ERROR_NO_ERROR>>) =>
            /\ Emitted(WSC_OP_NACK, "NACK")
            /\ lastOut[1].pdu.err = lastNack[1]
            /\ wsc = pre

C4_Witness ==
    /\ lastNack = <<WSC_CONFIGURATION_ERROR_NO_ERROR>>
    /\ sent["NACK"] >= 1
    /\ pre.state \in {STATE_EXPECT_M4, STATE_EXPECT_M6, STATE_EXPECT_M8}

\* C5: once the state is Finished, no frame, whatever its op and its message,
\* the accepted M2 sent again included, makes the Enrollee transmit or change
\* its session
C5_FinishedIsTerminal == pre.state = STATE_FINISHED => Ignored

C5_Witness ==
    pre.state = STATE_FINISHED /\ IsMsg /\ ev.pkt.pdu = ReplayedM2(pre)

\* C6: in every state an ACK, DONE, NACK or FRAG_ACK frame is ignored: nothing
\* is transmitted and no field of the session changes
C6_OtherOpsIgnored ==
    (ev.pkt.len >= 2
        /\ ev.pkt.op \in {WSC_OP_ACK, WSC_OP_DONE, WSC_OP_NACK, WSC_OP_FRAG_ACK})
    => Ignored

C6_Witness ==
    /\ ev.pkt.op = WSC_OP_NACK /\ ev.pkt.flags = 0 /\ ev.pkt.len > 2
    /\ pre.state = STATE_EXPECT_M4
    /\ ev.pkt.pdu = GoodM4(pre, pre.sent_pdu[1])

\* C7: a frame whose flags byte is not zero is ignored whatever its op and the
\* state: nothing is transmitted and no field of the session changes
C7_FlagsDropped == (ev.pkt.len >= 2 /\ ev.pkt.flags # 0) => Ignored

C7_Witness ==
    /\ ev.pkt.flags # 0 /\ ev.pkt.op = WSC_OP_MSG /\ ev.pkt.len > 2
    /\ pre.state = STATE_EXPECT_M2
    /\ ev.pkt.pdu \in GoodM2s(pre, pre.sent_pdu[1])

\* C8: an M2 that parses and whose Authenticator does not verify, received in
\* ExpectM2, makes the Enrollee transmit nothing (no M3, and no NACK is even
\* asked for), stay in ExpectM2, keep neither the AuthKey handle nor the
\* KeyWrapKey handle, and leave the derived keys zeroed
C8_BadM2Authenticator ==
    (pre.state = STATE_EXPECT_M2 /\ IsMsg /\ ev.pkt.pdu.type = "M2" /\ ~Verifies) =>
        /\ lastOut = <<>>
        /\ lastNack = <<>>
        /\ wsc.state = STATE_EXPECT_M2
        /\ wsc.hmac_auth_key = 0
        /\ wsc.aes_cbc_128 = 0
        /\ stack = NoStack

C8_Witness ==
    /\ pre.state = STATE_EXPECT_M2 /\ IsMsg /\ ev.pkt.pdu.type = "M2" /\ ~Verifies
    /\ wsc.m2 # <<>>
    /\ wsc.m2[1].registrar_nonce = ev.pkt.pdu.rn

\* The Encrypted Settings of the last event's message are not well-formed
\* ones: too short, not whole blocks, wrong padding, another key, attributes
\* that do not parse, a wrong KeyWrapAuthenticator, or for M8 no credential or
\* more than the handler takes
BadSettings ==
    LET pdu == ev.pkt.pdu
        bad == EncVariants \ {"good", "wrongnonce"}
    IN  \/ pdu.type = "M4" /\ \E v \in bad : pdu.enc = EncOf(pre, Peer.r_snonce1, 0, v)
        \/ pdu.type = "M6" /\ \E v \in bad : pdu.enc = EncOf(pre, Peer.r_snonce2, 0, v)
        \/ pdu.type = "M8" /\ \E v \in bad : pdu.enc = EncOf(pre, 0, 1, v)
        \/ pdu.type = "M8" /\ \E c \in {0, 4} : pdu.enc = EncOf(pre, 0, c, "good")

\* C9: in ExpectM2..ExpectM8 a MSG that is not a message of the awaited type,
\* and in ExpectM4..ExpectM8 a MSG of the awaited type whose Authenticator
\* does not verify, transmits nothing and leaves the state; with a wrong
\* Authenticator no NACK is asked for and no field changes, whatever the
\* Encrypted Settings are
C9_SilentDrop ==
    /\ (pre.state \in STATE_EXPECT_M2..STATE_EXPECT_M8 /\ IsMsg
            /\ ev.pkt.pdu.type # Awaited(pre.state)) =>
            (lastOut = <<>> /\ wsc.state = pre.state)
    /\ (pre.state \in STATE_EXPECT_M4..STATE_EXPECT_M8 /\ IsMsg
            /\ ev.pkt.pdu.type = Awaited(pre.state) /\ ~Verifies) =>
            (Ignored /\ lastNack = <<>>)

C9_Witness ==
    /\ pre.state = STATE_EXPECT_M4 /\ IsMsg /\ ev.pkt.pdu.type = "M4"
    /\ ~Verifies /\ BadSettings

\* C10: in ExpectM4, ExpectM6 and ExpectM8 a message of the awaited type whose
\* Authenticator verifies and whose Encrypted Settings fail to decrypt, to
\* parse or to carry the right KeyWrapAuthenticator makes the Enrollee
\* transmit exactly one frame, a NACK with DECRYPTION_CRC_FAILURE, and leaves
\* the state and every other field
C10_DecryptionCrcFailure ==
    (pre.state \in STATE_EXPECT_M4..STATE_EXPECT_M8 /\ IsMsg
        /\ ev.pkt.pdu.type = Awaited(pre.state) /\ Verifies /\ BadSettings) =>
        /\ Emitted(WSC_OP_NACK, "NACK")
        /\ lastOut[1].pdu.err = WSC_CONFIGURATION_ERROR_DECRYPTION_CRC_FAILURE
        /\ wsc = pre

C10_Witness ==
    /\ pre.state = STATE_EXPECT_M6 /\ IsMsg /\ Verifies
    /\ ev.pkt.pdu = M6Pdu(pre, pre.sent_pdu[1], "badkwa", TRUE)
    /\ Emitted(WSC_OP_NACK, "NACK")

\* The Encrypted Settings of the last event's message decrypt, parse and
\* carry the right KeyWrapAuthenticator: the peer made them well, around the
\* secret nonce it committed to or around another one
SoundSettings(snonce) ==
    \E v \in {"good", "wrongnonce"} : ev.pkt.pdu.enc = EncOf(pre, snonce, 0, v)

\* C11: an M4 (an M6) that passes the Authenticator, decryption, inner parse
\* and KeyWrapAuthenticator checks and whose R-Hash1 (the R-Hash2 stored from
\* M4) is not HMAC(AuthKey, R-SNonce || PSK || PKE || PKR) is answered by one
\* NACK with DEVICE_PASSWORD_AUTH_FAILURE, no M5 (M7), and the session stays
\* as it was, in ExpectM4 (ExpectM6)
C11_RHashMismatch ==
    LET pdu == ev.pkt.pdu
        nacked == /\ Emitted(WSC_OP_NACK, "NACK")
                  /\ lastOut[1].pdu.err =
                         WSC_CONFIGURATION_ERROR_DEVICE_PASSWORD_AUTH_FAILURE
                  /\ wsc = pre
    IN  /\ (pre.state = STATE_EXPECT_M4 /\ IsMsg /\ pdu.type = "M4" /\ Verifies
                /\ SoundSettings(Peer.r_snonce1)
                /\ pdu.h1 # RHash(pre, pdu.enc.pt.snonce, Half1(pre.device_password)))
            => nacked
        /\ (pre.state = STATE_EXPECT_M6 /\ IsMsg /\ pdu.type = "M6" /\ Verifies
                /\ SoundSettings(Peer.r_snonce2)
                /\ pre.r_hash2 #
                       RHash(pre, pdu.enc.pt.snonce, Half2(pre.device_password)))
            => nacked

C11_Witness ==
    /\ pre.state = STATE_EXPECT_M6 /\ IsMsg /\ Verifies
    /\ ev.pkt.pdu = GoodM6(pre, pre.sent_pdu[1])
    /\ pre.r_hash2 # RHash(pre, Peer.r_snonce2, Half2(pre.device_password))
    /\ Emitted(WSC_OP_NACK, "NACK")

\* C12: once an M4 has been answered with NACK DEVICE_PASSWORD_AUTH_FAILURE,
\* the state never advances past ExpectM6, whatever frames follow
C12_AbandonedAfterWrongPassword == pwfail => wsc.state <= STATE_EXPECT_M6

----------------------------------------------------------------------------
(* Properties of the helpers: call is the call, its inputs and its results *)

\* The payload of the call is an IV and one or more whole cipher blocks
WholeBlocks ==
    call.enc.len >= IV_LEN + AES_BLOCK /\ (call.enc.len - IV_LEN) % AES_BLOCK = 0

\* Byte i of what the cipher-text of the call's payload decrypts to
Decrypted(i) == call.enc.pt.tail[i]

\* The decrypted data of the call ends in p bytes p, with p from 1 to the
\* block length
ProperPadding ==
    LET n == call.enc.len - IV_LEN
        p == Decrypted(n)
    IN  /\ 1 <= p /\ p <= AES_BLOCK
        /\ \A i \in (n - p + 1)..n : Decrypted(i) = p

\* C13: encrypted_settings_decrypt returns a plain text exactly when the last
\* byte p of the decrypted data is from 1 to 16 and the last p bytes are all
\* p, and then the length it returns is that of the cipher-text less p
C13_PaddingValidated ==
    (call.fn = "decrypt" /\ WholeBlocks) =>
        /\ call.d.ok <=> ProperPadding
        /\ call.d.ok =>
               call.d.out_len =
                   call.enc.len - IV_LEN - Decrypted(call.enc.len - IV_LEN)

\* C14: encrypted_settings_decrypt returns NULL, and has not called the
\* cipher, for every payload shorter than 32 bytes or whose length less the
\* 16 bytes of IV is not a multiple of 16; the cipher is called on the others
\* only, with the first 16 bytes as IV and the rest as cipher-text, so that
\* what is returned is never longer than the payload less the IV
C14_LengthsRejected ==
    call.fn = "decrypt" =>
        /\ ~WholeBlocks => (~call.d.ok /\ ~call.d.decrypted)
        /\ WholeBlocks => call.d.decrypted
        /\ call.d.ok =>
               /\ call.d.pt = call.enc.pt
               /\ call.d.out_len <= call.enc.len - IV_LEN

C14_Witness ==
    /\ call.fn = "decrypt" /\ ~call.d.ok
    /\ call.enc.len = IV_LEN + AES_BLOCK + 8

\* C15: encrypted_settings_encrypt of n bytes returns the IV followed by the
\* cipher-text of the n bytes and pad = 16 - (n mod 16) bytes of value pad, so
\* from 1 to 16 of them, 16 when n is a multiple of 16; the length returned
\* is 16 + n + pad, a whole number of blocks after the IV
C15_EncryptPads ==
    call.fn = "encrypt" =>
        LET n == call.in_len
            pad == AES_BLOCK - (n % AES_BLOCK)
            out == call.e.out
        IN  /\ call.e.ok
            /\ 1 <= pad /\ pad <= AES_BLOCK
            /\ (n % AES_BLOCK = 0) => pad = AES_BLOCK
            /\ call.e.out_len = IV_LEN + n + pad
            /\ (call.e.out_len - IV_LEN) % AES_BLOCK = 0
            /\ out.len = call.e.out_len
            /\ out.iv = call.enc.iv
            /\ out.key = Keyed.aes_cbc_128
            /\ PlainLen(out.pt) = n + pad
            /\ \A i \in 1..n : PlainByte(out.pt, i) = PlainByte(call.in, i)
            /\ \A i \in (n + 1)..(n + pad) : PlainByte(out.pt, i) = pad

C15_Witness ==
    /\ call.fn = "encrypt" /\ call.in_len = 2 * AES_BLOCK
    /\ call.e.out_len = IV_LEN + 3 * AES_BLOCK

\* C16: when encrypted_settings_decrypt returns a plain text for a payload,
\* encrypted_settings_encrypt of that plain text with the IV of the payload
\* returns the payload
C16_RoundTrip ==
    (call.fn = "roundtrip" /\ call.d.ok) =>
        (call.e.ok /\ call.e.out_len = call.enc.len /\ call.e.out = call.enc)

----------------------------------------------------------------------------
(* Properties of the Authenticators *)

\* The last event was a message of the type its state waits for
IsAwaited ==
    /\ pre.state \in STATE_EXPECT_M2..STATE_EXPECT_M8
    /\ IsMsg
    /\ ev.pkt.pdu.type = Awaited(pre.state)

\* The AuthKey of the exchange the last event's message belongs to
AuthKeyOf(pdu) ==
    IF pdu.type = "M2" THEN PeerKeys(pre, pdu.rn, pdu.pk).auth_key
    ELSE PeerAuthKey(pre)

\* Every M3, M5, M7 the last event sent carries the first 8 bytes of
\* HMAC(AuthKey, inbound message || sent message less its last cut bytes)
PutOver(cut) ==
    \A i \in 1..Len(lastOut) :
        lastOut[i].pdu.type \in {"M3", "M5", "M7"} =>
            lastOut[i].pdu.auth =
                HMAC(PeerAuthKey(wsc),
                     <<ev.pkt.pdu, Truncated(lastOut[i].pdu, cut)>>, AUTH_LEN)

\* The last 8 bytes of the last event's message are the first 8 of
\* HMAC(AuthKey, last message sent || this message less its last cut bytes)
VerifiesOver(cut) ==
    ev.pkt.pdu.auth =
        HMAC(AuthKeyOf(ev.pkt.pdu),
             pre.sent_pdu \o <<Truncated(ev.pkt.pdu, cut)>>, AUTH_LEN)

LastSent(state) ==
    CASE state = STATE_EXPECT_M2 -> "M1"
      [] state = STATE_EXPECT_M4 -> "M3"
      [] state = STATE_EXPECT_M6 -> "M5"
      [] state = STATE_EXPECT_M8 -> "M7"
      [] OTHER -> "none"

\* C18: whenever the session waits for M2, M4, M6 or M8, sent_pdu is the body
\* of the last message frame the Enrollee transmitted, M1, M3, M5 or M7 in
\* that order, whatever was dropped or answered with a NACK since
C18_SentPduIsLastSent ==
    wsc.state \in STATE_EXPECT_M2..STATE_EXPECT_M8 =>
        /\ wsc.sent_pdu = <<peer_prev>>
        /\ peer_prev.type = LastSent(wsc.state)

C18_Witness ==
    /\ wsc.state = STATE_EXPECT_M6 /\ pre.state = STATE_EXPECT_M6
    /\ Emitted(WSC_OP_NACK, "NACK")
    /\ wsc.sent_pdu = <<peer_prev>> /\ peer_prev.type = "M5"

\* C19: the Authenticator of every M3, M5, M7 is computed with, as previous
\* message, the inbound message of the event that sends it: not the
\* session's sent_pdu, and not an inbound message of an earlier event
C19_PrevIsInbound ==
    \A i \in 1..Len(lastOut) :
        lastOut[i].pdu.type \in {"M3", "M5", "M7"} =>
            LET data == lastOut[i].pdu.auth.data
            IN  /\ Len(data) = 2
                /\ data[1] = ev.pkt.pdu
                /\ data[1] # pre.sent_pdu[1]
                /\ data[1].type = Awaited(pre.state)
                /\ data[2] = WithoutAuthenticator(lastOut[i].pdu)
                /\ lastOut[i].pdu.auth.key = wsc.hmac_auth_key

\* an M5 is sent for an M4, after another M4 was answered with a NACK
C19_Witness ==
    /\ pwfail /\ pre.state = STATE_EXPECT_M4 /\ Emitted(WSC_OP_MSG, "M5")
    /\ lastOut[1].pdu.auth.data[1] = ev.pkt.pdu

\* C20: keywrap_authenticator_check accepts attributes exactly when their
\* last 8 bytes are the first 8 of HMAC(AuthKey, attributes less their last
\* 12 bytes); keywrap_authenticator_put writes that value there and nothing
\* else, so that what it makes is accepted under the same AuthKey
C20_KeyWrapAuthenticator ==
    call.fn = "keywrap" =>
        LET len == call.in_len
            kwa == HMAC(Keyed.hmac_auth_key,
                        <<[snonce |-> call.in.snonce, creds |-> call.in.creds,
                           len |-> len - AUTH_ATTR_LEN]>>, AUTH_LEN)
        IN  /\ call.checked <=> call.in.kwa = kwa
            /\ call.put = [call.in EXCEPT !.kwa = kwa]
            /\ call.put_checked

C20_Witness ==
    /\ call.fn = "keywrap" /\ ~call.checked /\ call.put_checked
    /\ call.in.kwa.key = Keyed.hmac_auth_key

----------------------------------------------------------------------------
(* The session and the outer EAP layer *)

\* What hands the result of the exchange to the outer EAP layer
Delivery == {"eap_set_key_material", "eap_method_success"}

\* C21: whenever the state is Finished, the credentials of M8 and the key
\* material (EMSK, 64-byte MSK) have been handed to the outer EAP layer
C21_DeliveredWhenFinished ==
    wsc.state = STATE_FINISHED => Delivery \cap eap.calls # {}

\* The members m2, hmac_auth_key, aes_cbc_128 of session w that are absent
Absent(w) ==
    {f \in {"m2", "hmac_auth_key", "aes_cbc_128"} :
        \/ f = "m2" /\ w.m2 = <<>>
        \/ f = "hmac_auth_key" /\ w.hmac_auth_key = 0
        \/ f = "aes_cbc_128" /\ w.aes_cbc_128 = 0}

\* M2 has been processed successfully: M3 went out
M2Processed(w) == w.state >= STATE_EXPECT_M4

\* C22 as stated: while there is a session, exactly one of m2, hmac_auth_key,
\* aes_cbc_128 is absent before M2 has been processed successfully, and none
\* after
C22_ExactlyOneAbsent ==
    eap.data =>
        IF M2Processed(wsc) THEN Absent(wsc) = {}
        ELSE Cardinality(Absent(wsc)) = 1

\* C22: while there is a session, hmac_auth_key and aes_cbc_128 are both
\* absent before M2 has been processed successfully, whether or not an m2 is
\* held; after, m2, hmac_auth_key and aes_cbc_128 are all present
C22_HandlesAbsentBeforeM2 ==
    eap.data =>
        IF M2Processed(wsc) THEN Absent(wsc) = {}
        ELSE {"hmac_auth_key", "aes_cbc_128"} \subseteq Absent(wsc)

\* an M2 with a wrong Authenticator was rejected: the m2 is held, the handles
\* are not
C22_Witness ==
    /\ eap.data /\ pre.state = STATE_EXPECT_M2 /\ wsc.state = STATE_EXPECT_M2
    /\ ev.pkt.pdu.type = "M2" /\ wsc_parse_m2(ev.pkt.pdu)
    /\ Absent(wsc) = {"hmac_auth_key", "aes_cbc_128"}

\* eap_wsc_remove has run
Removed == eap.removed # <<>>

\* The members of the session that hold key material in memory of their own
KeyMaterial == {"private", "hmac_auth_key", "aes_cbc_128", "device_password"}

\* C23: when the session is destroyed, the DH private key, the AuthKey and
\* KeyWrapKey handles, psk1, psk2 and the device password are zeroed before
\* their memory is released
C23_ZeroedBeforeRelease ==
    Removed =>
        /\ \A i \in 1..Len(eap.removed) :
              (eap.removed[i].field \in KeyMaterial /\ ~eap.removed[i].null)
                  => eap.removed[i].zeroed
        /\ wsc.psk1 = NoDigest /\ wsc.psk2 = NoDigest

\* C24: the shared secret, DHKey, KDK and the key block of eap_wsc_handle_m2
\* are zero whenever the handler returns
C24_TransientsZeroed == stack = NoStack

\* The resources a session may own
Resources ==
    {"m1", "m2", "sent_pdu", "private", "device_password", "hmac_auth_key",
     "aes_cbc_128"}

\* The resources session w owns
Owned(w) ==
    {f \in Resources :
        \/ f = "m1" /\ w.m1 # <<>>
        \/ f = "m2" /\ w.m2 # <<>>
        \/ f = "sent_pdu" /\ w.sent_pdu # <<>>
        \/ f = "private" /\ w.private # 0
        \/ f = "device_password" /\ w.device_password # <<>>
        \/ f = "hmac_auth_key" /\ w.hmac_auth_key # 0
        \/ f = "aes_cbc_128" /\ w.aes_cbc_128 # 0}

\* How often eap_wsc_remove released what member f pointed to
Releases(f) ==
    Cardinality({i \in 1..Len(eap.removed) :
                    eap.removed[i].field = f /\ ~eap.removed[i].null})

\* C25: eap_wsc_remove, in whatever state the session is, releases each
\* resource the session owns once, the session itself once, and nothing that
\* is absent: an absent member only ever reaches a function that frees
C25_RemoveReleasesOnce ==
    Removed =>
        /\ \A f \in Resources : Releases(f) = IF f \in Owned(pre) THEN 1 ELSE 0
        /\ Releases("wsc") = 1
        /\ \A i \in 1..Len(eap.removed) :
              eap.removed[i].fn \in
                  {"l_free", "l_key_free", "l_checksum_free", "l_cipher_free"}

\* removed after a rejected M2: m1, m2, the key, the password and M1 are
\* owned, the handles are not
C25_Witness ==
    /\ Removed
    /\ Owned(pre) = {"m1", "m2", "sent_pdu", "private", "device_password"}
    /\ pre.state = STATE_EXPECT_M2

\* C26: after a successful eap_wsc_load_settings the device password is made
\* of '0'..'9' and 'A'..'F' only and is at least 8 bytes long; it is the
\* configured one with each of 'a'..'f' replaced by its upper case, or
\* "00000000" when none is configured
C26_PasswordUpperHex ==
    (eap.data /\ eap.loaded = <<TRUE>>) =>
        LET pw == wsc.device_password
            given == eap.settings.DevicePassword
        IN  /\ \A i \in 1..Len(pw) : pw[i] \in Digits \cup UpperHex
            /\ Len(pw) >= 8
            /\ given = <<>> => pw = <<48, 48, 48, 48, 48, 48, 48, 48>>
            /\ given # <<>> =>
                  /\ Len(pw) = Len(given[1])
                  /\ \A i \in 1..Len(pw) :
                        pw[i] = IF given[1][i] \in LowerHex THEN given[1][i] - 32
                                ELSE given[1][i]

\* "deadbeef12" was configured and "DEADBEEF12" is stored
C26_Witness ==
    /\ eap.data /\ eap.loaded = <<TRUE>>
    /\ eap.settings.DevicePassword =
           <<<<100, 101, 97, 100, 98, 101, 101, 102, 49, 50>>>>
    /\ wsc.device_password = <<68, 69, 65, 68, 66, 69, 69, 70, 49, 50>>

\* What makes eap_wsc_load_settings fail
BadMac == eap.settings.EnrolleeMAC = <<>> \/ eap.settings.EnrolleeMAC = <<0>>

BadBand ==
    \/ eap.settings.RFBand = <<>>
    \/ eap.settings.RFBand[1] \notin {1, 2, 4}

BadPassword ==
    /\ eap.settings.DevicePassword # <<>>
    /\ LET pw == eap.settings.DevicePassword[1]
       IN  \/ Len(pw) < 8
           \/ \E i \in 1..Len(pw) : pw[i] \notin Digits \cup UpperHex \cup LowerHex

NoPublicKey ==
    eap.env.fail \in {"l_key_new", "l_key_compute_dh_public", "short_public"}

C28_PasswordHalves ==
    (eap.data /\ M2Processed(wsc)) =>
        LET pw == wsc.device_password
            N == Len(pw)
        IN  /\ wsc.psk1.key = wsc.hmac_auth_key /\ wsc.psk1.len = 16
            /\ wsc.psk2.key = wsc.hmac_auth_key /\ wsc.psk2.len = 16
            /\ Len(wsc.psk1.data) = 1 /\ Len(wsc.psk2.data) = 1
            /\ Len(wsc.psk1.data[1]) = (N + 1) \div 2
            /\ Len(wsc.psk2.data[1]) = N \div 2
            /\ wsc.psk1.data[1] \o wsc.psk2.data[1] = pw

\* M3 has just been built from a device password of 9 bytes
C28_Witness ==
    /\ eap.data /\ pre.state = STATE_EXPECT_M2 /\ wsc.state = STATE_EXPECT_M4
    /\ Len(wsc.device_password) = 9
    /\ Len(wsc.psk1.data[1]) = 5

\* The op a message of the Enrollee travels under
OpOf(type) ==
    CASE type \in {"M1", "M3", "M5", "M7"} -> WSC_OP_MSG
      [] type = "NACK" -> WSC_OP_NACK
      [] type = "DONE" -> WSC_OP_DONE
      [] OTHER -> 0

\* C29: every frame handed to the outer EAP layer has flags 0 and the op of
\* its message: WSC_OP_MSG for M1, M3, M5, M7, WSC_OP_NACK for a WSC_NACK,
\* WSC_OP_DONE for a WSC_Done; none has op START, ACK or FRAG_ACK
C29_FrameHeader ==
    \A i \in 1..Len(lastOut) :
        /\ lastOut[i].flags = 0
        /\ lastOut[i].op \in {WSC_OP_MSG, WSC_OP_NACK, WSC_OP_DONE}
        /\ lastOut[i].op = OpOf(lastOut[i].pdu.type)

\* a WSC_Done, a WSC_NACK or a message has just been sent
C29_Witness ==
    /\ lastOut # <<>>
    /\ lastOut[1].pdu.type = "DONE"
    /\ sent["NACK"] > 0 /\ sent["M7"] > 0

\* C30: an event makes the Enrollee send at most one frame
C30_OneFramePerEvent == Len(lastOut) <= 1

\* an M4 with a wrong R-Hash1 was answered with the NACK and nothing else
C30_Witness ==
    /\ pre.state = STATE_EXPECT_M4
    /\ Len(lastOut) = 1 /\ lastOut[1].op = WSC_OP_NACK
    /\ lastNack = <<WSC_CONFIGURATION_ERROR_DEVICE_PASSWORD_AUTH_FAILURE>>

----------------------------------------------------------------------------
(* The exchange as a whole *)

\* C31: between events, in ExpectM4, ExpectM6, ExpectM8 and Finished the
\* session holds an m2 and the handles of the AuthKey and the KeyWrapKey
\* derived from it, so that every check and every encryption or decryption
\* made in those states has its key
C31_KeysInstalled ==
    wsc.state \in {STATE_EXPECT_M4, STATE_EXPECT_M6, STATE_EXPECT_M8, STATE_FINISHED}
        => /\ wsc.m2 # <<>>
           /\ wsc.hmac_auth_key # 0 /\ wsc.hmac_auth_key = PeerAuthKey(wsc)
           /\ wsc.aes_cbc_128 # 0 /\ wsc.aes_cbc_128 = PeerWrapKey(wsc)

\* an M6 has just been checked and decrypted with the installed keys
C31_Witness ==
    /\ pre.state = STATE_EXPECT_M6 /\ wsc.state = STATE_EXPECT_M8
    /\ pre.hmac_auth_key # 0 /\ pre.aes_cbc_128 # 0

\* The last event was a frame of at least two bytes, without flags, whose op
\* is none of the six operations
UnknownOp ==
    /\ ev.pkt.len >= 2 /\ ev.pkt.flags = 0
    /\ ev.pkt.op \notin {WSC_OP_START, WSC_OP_ACK, WSC_OP_NACK, WSC_OP_MSG,
                         WSC_OP_DONE, WSC_OP_FRAG_ACK}

\* C32: a frame without flags whose op is none of the six operations moves
\* no state and makes the Enrollee send nothing, whatever the state
C32_UnknownOpIgnored ==
    UnknownOp => (lastOut = <<>> /\ wsc.state = pre.state)

\* The message that is sent on entry to a state
SentOnEntry(state) ==
    CASE state = STATE_EXPECT_M2 -> "M1"
      [] state = STATE_EXPECT_M4 -> "M3"
      [] state = STATE_EXPECT_M6 -> "M5"
      [] state = STATE_EXPECT_M8 -> "M7"
      [] state = STATE_FINISHED -> "DONE"
      [] OTHER -> "none"

\* C33: the state changes only in an event that handed the message of the
\* new state to the outer EAP layer: M1 for ExpectM2, M3 for ExpectM4, M5 for
\* ExpectM6, M7 for ExpectM8, DONE for Finished
C33_AdvanceOnlyWithFrame ==
    wsc.state # pre.state =>
        \E i \in 1..Len(lastOut) : lastOut[i].pdu.type = SentOnEntry(wsc.state)

\* C34: M1, M3, M5, M7 and DONE are each sent at most once, and none before
\* the ones that precede it; an event that sends one of them is the first to
\* do so
C34_SentOnce ==
    /\ \A k \in Kinds \ {"NACK"} : sent[k] <= 1
    /\ sent["M3"] > 0 => sent["M1"] > 0
    /\ sent["M5"] > 0 => sent["M3"] > 0
    /\ sent["M7"] > 0 => sent["M5"] > 0
    /\ sent["DONE"] > 0 => sent["M7"] > 0
    /\ \A i \in 1..Len(lastOut) :
          lastOut[i].pdu.type # "NACK" =>
              /\ lastOut[i].pdu.type = SentOnEntry(wsc.state)
              /\ pre.state = wsc.state - 1

\* the whole exchange was sent, and more than one NACK; the last event
\* replayed a frame and nothing was sent again
C34_Witness ==
    /\ \A k \in Kinds \ {"NACK"} : sent[k] = 1
    /\ sent["NACK"] = 2
    /\ lastOut = <<>> /\ ev.pkt.op \in {WSC_OP_START, WSC_OP_MSG}

\* What of a session bears on the frames it sends and the states it takes
\* from here on: all of it, but for the m2 that eap_wsc_handle_m2 allocates
\* and fills before it has accepted an M2
Lasting(w) == IF w.state <= STATE_EXPECT_M2 THEN [w EXCEPT !.m2 = <<>>] ELSE w

\* The last event was a frame that was answered with nothing
Dropped == ev # NoEvent /\ lastOut = <<>>

\* C35: a frame that is answered with nothing leaves in the session nothing
\* that lasts, and what it may leave (the m2 of a rejected M2) changes neither
\* the frames sent nor the states taken on any later frame: the session and
\* one that never saw the frame go on in step
C35_DropHasNoEffect ==
    /\ Dropped => Lasting(wsc) = Lasting(pre)
    /\ Lasting(wsc) # wsc =>
          \A pkt \in Frames(wsc, peer_prev) : \A env \in Envs(wsc, {"none"}) :
              LET a == eap_wsc_handle_request(wsc, pkt, env)
                  b == eap_wsc_handle_request(Lasting(wsc), pkt, env)
              IN  a.out = b.out /\ Lasting(a.wsc) = Lasting(b.wsc)

\* after an M2 was rejected, a valid M2 has been accepted
C35_Witness ==
    /\ pre.state = STATE_EXPECT_M2 /\ pre.m2 # <<>> /\ pre.hmac_auth_key = 0
    /\ wsc.state = STATE_EXPECT_M4 /\ Emitted(WSC_OP_MSG, "M3")

\* C36: r_hash2 changes only in an event that handles, in ExpectM4, an M4
\* whose Authenticator, Encrypted Settings, KeyWrapAuthenticator and R-Hash1
\* are right, and that sends M5; it is then the R-Hash2 of that M4
C36_RHash2FromAcceptedM4 ==
    LET pdu == ev.pkt.pdu
    IN  /\ wsc.r_hash2 # pre.r_hash2 =>
              /\ pre.state = STATE_EXPECT_M4 /\ wsc.state = STATE_EXPECT_M6
              /\ pdu.type = "M4" /\ Verifies
              /\ pdu.enc = EncOf(pre, Peer.r_snonce1, 0, "good")
              /\ pdu.h1 = RHash(pre, Peer.r_snonce1, Half1(pre.device_password))
              /\ Emitted(WSC_OP_MSG, "M5")
              /\ wsc.r_hash2 = pdu.h2
        /\ (pre.state = STATE_EXPECT_M4 /\ wsc.state = STATE_EXPECT_M6)
              => wsc.r_hash2 = pdu.h2

\* an M4 was NACKed for its R-Hash1 and the stored R-Hash2 stayed; and an M6
\* is being compared with the R-Hash2 of the accepted M4
C36_Witness ==
    /\ pre.state = STATE_EXPECT_M4 /\ wsc.state = STATE_EXPECT_M4
    /\ lastNack = <<WSC_CONFIGURATION_ERROR_DEVICE_PASSWORD_AUTH_FAILURE>>
    /\ ev.pkt.pdu.h2 # NoDigest /\ wsc.r_hash2 = NoDigest

\* C37: the m2 the session holds once it has left ExpectM2 is the
\* RegistrarNonce and public key of the M2 whose Authenticator verified, and
\* stays; the RegistrarNonce of every M3, M5, M7, DONE and NACK sent and the
\* PKR of E-Hash1 and E-Hash2 are those of that m2
C37_M2IsTheAcceptedOne ==
    /\ (pre.state = STATE_EXPECT_M2 /\ wsc.state = STATE_EXPECT_M4) =>
          /\ Verifies
          /\ wsc.m2 = <<[registrar_nonce |-> ev.pkt.pdu.rn,
                         public_key |-> ev.pkt.pdu.pk]>>
    /\ pre.state >= STATE_EXPECT_M4 => wsc.m2 = pre.m2
    /\ \A i \in 1..Len(lastOut) :
          LET pdu == lastOut[i].pdu
          IN  /\ pdu.type \in {"M3", "M5", "M7", "DONE", "NACK"} =>
                    (wsc.m2 # <<>> /\ wsc.state >= STATE_EXPECT_M4
                        /\ pdu.rn = wsc.m2[1].registrar_nonce)
              /\ pdu.type = "M3" =>
                    /\ pdu.h1.data[4] = wsc.m2[1].public_key
                    /\ pdu.h2.data[4] = wsc.m2[1].public_key

\* an M2 was rejected, and an M2 with another RegistrarNonce or public key
\* has just been accepted
C37_Witness ==
    /\ pre.state = STATE_EXPECT_M2 /\ wsc.state = STATE_EXPECT_M4
    /\ pre.m2 # <<>> /\ pre.m2 # wsc.m2

----------------------------------------------------------------------------
(* Encrypted Settings, from plain text to plain text *)

\* C38: encrypted_settings_decrypt of what encrypted_settings_encrypt made of
\* n bytes and an IV succeeds and returns those n bytes, out_len = n, also
\* when n is a multiple of 16 and a whole block of padding was added
C38_EncryptDecrypt ==
    call.fn = "encrypt_decrypt" =>
        LET n == call.in_len
        IN  /\ call.e.ok /\ call.d.ok
            /\ call.d.out_len = n
            /\ call.d.pt.tlvlen = call.in.tlvlen
            /\ call.d.pt.snonce = call.in.snonce
            /\ call.d.pt.kwa = call.in.kwa
            /\ \A i \in 1..n : PlainByte(call.d.pt, i) = PlainByte(call.in, i)

\* two whole blocks of the byte 16 came back as they went in
C38_Witness ==
    /\ call.fn = "encrypt_decrypt" /\ call.in_len = 2 * AES_BLOCK
    /\ call.in.tail = Fill(2 * AES_BLOCK, 16)
    /\ call.e.out_len = IV_LEN + 3 * AES_BLOCK
    /\ call.d.ok /\ call.d.out_len = 2 * AES_BLOCK

\* C39: the Encrypted Settings that eap_wsc_send_m5 and eap_wsc_send_m7 have
\* made are of 64 bytes, the size of the buffer they are written into, their
\* plain text being of 32 bytes; for a plain text of n bytes they are of no
\* more than 64 bytes exactly when n <= 47
C39_FitsTheBuffer ==
    call.fn = "encrypt" =>
        /\ call.in \in BuiltSettings =>
              (call.in_len = 32 /\ call.e.out_len = encrypted_size)
        /\ call.in_len = 32 => call.e.out_len = 64
        /\ call.e.out_len <= encrypted_size <=> call.in_len <= 47

\* the attributes of M5 have been encrypted into 64 bytes
C39_Witness ==
    /\ call.fn = "encrypt" /\ call.in \in BuiltSettings
    /\ call.in.snonce = Keyed.e_snonce1
    /\ call.e.ok /\ call.e.out_len = 64

====
